---------------------------- MODULE Spec2Model ----------------------------
(***************************************************************************)
(* Client-side scripts of the deepreview site:                             *)
(*   - URLParamsHandler (the link parameter propagator), in its two        *)
(*     variants: src/unnamed/part_000 (updateAllLinks without a            *)
(*     hasUserInfo gate) and src/unnamed/part_001 (gated);                 *)
(*   - UserGuideApp (the guide viewer), in its two variants:               *)
(*     src/user-guide.js (content fetched) and src/assets/user-guide.js    *)
(*     (content embedded).                                                 *)
(*                                                                         *)
(* A JavaScript string is a sequence of tokens.  A token is one character, *)
(* or the name of a page ("pricing.html"), which no operation of the code  *)
(* splits: the selectors and includes() look for whole page names, and     *)
(* the form-urlencoded serializer leaves every character of them alone.    *)
(***************************************************************************)
EXTENDS Integers, Sequences, FiniteSets, TLC

VARIABLES
    \* ---- URLParamsHandler ----
    variant,        \* "gated" (part_001) or "ungated" (part_000)
    userParams,     \* this.userParams
    lastCall,       \* the last buildURLWithParams call made from outside: its arguments and outcome
    anchors,        \* the <a> elements in the document: element -> href attribute
    ready,          \* doInit has run: the first updateAllLinks is done, the observer observes
    pendingTimers,  \* number of pending setTimeout(() => this.updateAllLinks(), 100)
    lastRun,        \* the last updateAllLinks run: what triggered it, which anchors it wrote
    \* ---- UserGuideApp ----
    guideVariant,   \* "fetched" (src/user-guide.js) or "embedded" (src/assets/user-guide.js)
    pc,             \* "loading": the script has not run; "fetching": init awaits loadGuideData;
                    \* "idle": init has ended (or was ended by an exception)
    currentLang,    \* this.currentLang
    currentSection, \* this.currentSection
    guideData,      \* this.guideData: null, or the keys of the sections of each language
    sections,       \* this.sections and the entries of #guideNav: "" for none, else the language of the titles
    activeNav,      \* the key of the navigation entry of class active ("" for none)
    article,        \* what #guideArticle shows
    breadcrumb,     \* what #breadcrumb shows
    prevBtn,        \* the key prevBtn.onclick shows ("" when disabled)
    nextBtn,        \* the key nextBtn.onclick shows ("" when disabled)
    url,            \* window.location: the hash and the lang query parameter
    historyLength,  \* window.history.length
    pageLoads,      \* how often the page was reloaded
    darkTheme,      \* document.body has the class dark-theme
    savedTheme,     \* localStorage['user-guide-theme'] ("" when not set)
    lastOp,         \* the handler that ran last and how it ended
    switched,       \* the run of switchLanguage calls under way: its length, and the state it began in
    searchIndex,    \* this.searchIndex
    searchBound,    \* setupSearch has run: #searchInput has its input listener
    searchInput,    \* the value of #searchInput
    searchTimers,   \* number of pending setTimeout(() => this.performSearch(e.target.value), 300)
    searchMatch,    \* the keys of the navigation entries of class search-match
    lastSearch,     \* the last performSearch call: its query, the language, what it selected
    burst,          \* number of input events since the page was loaded or performSearch ran
    \* ---- UserGuideApp: parseMarkdown and markdownToHtml called on their own ----
    lastParse,      \* a parseMarkdown call: its argument and, once made, what it returned
    lastRender      \* a markdownToHtml call: its argument and, once made, its outcome

varsURL == <<variant, userParams, lastCall, anchors, ready, pendingTimers, lastRun>>

varsGuide == <<guideVariant, pc, currentLang, currentSection, guideData, sections, activeNav,
               article, breadcrumb, prevBtn, nextBtn, url, historyLength, pageLoads,
               darkTheme, savedTheme, lastOp, switched,
               searchIndex, searchBound, searchInput, searchTimers, searchMatch, lastSearch,
               burst>>

\* The search state that no method of the view below writes.
searchRest == <<searchIndex, searchBound, searchInput, searchTimers, lastSearch, burst>>

varsText == <<lastParse, lastRender>>

vars == <<varsURL, varsGuide, varsText>>

-----------------------------------------------------------------------------
(***************************************************************************)
(* Strings                                                                 *)
(***************************************************************************)

EmptyString == <<>>

\* String.prototype.trim removes leading and trailing white space, which is
\* also what \s matches: of the characters of the model, the space and the
\* line end.
Whitespace == {" ", "\n"}

RECURSIVE TrimStart(_)
TrimStart(s) ==
    IF s = <<>> THEN <<>>
    ELSE IF Head(s) \in Whitespace THEN TrimStart(Tail(s)) ELSE s

RECURSIVE TrimEnd(_)
TrimEnd(s) ==
    IF s = <<>> THEN <<>>
    ELSE IF s[Len(s)] \in Whitespace THEN TrimEnd(SubSeq(s, 1, Len(s) - 1)) ELSE s

Trim(s) == TrimEnd(TrimStart(s))

\* String.prototype.includes / the [href*="..."] attribute selector
Includes(s, sub) ==
    \E i \in 0..(Len(s) - Len(sub)) : SubSeq(s, i + 1, i + Len(sub)) = sub

\* A JavaScript value is truthy unless it is "", 0, null, undefined, NaN or
\* false; the values here are strings.
Truthy(s) == s # EmptyString

(***************************************************************************)
(* URLSearchParams: an ordered list of name/value pairs, serialized as     *)
(* application/x-www-form-urlencoded.                                      *)
(***************************************************************************)

\* The serializer leaves letters, digits and * - . _ as they are, writes a
\* space as "+", and percent-encodes every other character.
FormEncodeChar(c) ==
    CASE c = " " -> <<"+">>
      [] c = "@" -> <<"%", "4", "0">>
      [] c = "?" -> <<"%", "3", "F">>
      [] c = "&" -> <<"%", "2", "6">>
      [] c = "=" -> <<"%", "3", "D">>
      [] c = "#" -> <<"%", "2", "3">>
      [] OTHER   -> <<c>>

RECURSIVE FormEncode(_)
FormEncode(s) ==
    IF s = <<>> THEN <<>> ELSE FormEncodeChar(Head(s)) \o FormEncode(Tail(s))

\* URLSearchParams.prototype.set(name, value): the first pair of that name
\* takes the value and every other pair of that name is removed; a name not
\* yet in the list is appended.
ParamsSetAppend(params, name, value) ==
    Append(params, [name |-> name, value |-> value])

ParamsSet(params, name, value) ==
    IF \E i \in 1..Len(params) : params[i].name = name
    THEN LET first == CHOOSE i \in 1..Len(params) :
                          /\ params[i].name = name
                          /\ \A j \in 1..(i - 1) : params[j].name # name
             OtherName(p) == p.name # name
         IN  SubSeq(params, 1, first - 1)
             \o <<[name |-> name, value |-> value]>>
             \o SelectSeq(SubSeq(params, first + 1, Len(params)), OtherName)
    ELSE Append(params, [name |-> name, value |-> value])

\* URLSearchParams.prototype.toString()
RECURSIVE ParamsToString(_)
ParamsToString(params) ==
    IF params = <<>> THEN <<>>
    ELSE FormEncode(Head(params).name) \o <<"=">> \o FormEncode(Head(params).value)
         \o (IF Tail(params) = <<>> THEN <<>> ELSE <<"&">> \o ParamsToString(Tail(params)))


-----------------------------------------------------------------------------
(***************************************************************************)
(* URLParamsHandler: parameters and buildURLWithParams                     *)
(***************************************************************************)

\* The six attribution parameters, in the order buildURLWithParams sets them.
Fields == <<"email", "userName", "userSub", "source", "plan", "flowId">>

FieldSet == {Fields[i] : i \in 1..Len(Fields)}

EmailAB == <<"a", "@", "b", ".", "c", "o", "m">>

\* The values the query parameters of the page URL take in the model: email
\* is empty, blank, an address, or an address after a space; each other
\* parameter has one value.
EmailValues == {EmptyString, <<" ">>, EmailAB, <<" ", "a">>}

OtherValue(f) ==
    CASE f = "userName" -> <<"b", "o", "b">>
      [] f = "userSub"  -> <<"s", "1">>
      [] f = "source"   -> <<"pricing.html">>
      [] f = "plan"     -> <<"p", "r", "o">>
      [] f = "flowId"   -> <<"f", "?">>

\* window.location.search: each parameter absent, or present with a value
PageQueries ==
    {[f \in present |-> IF f = "email" THEN e ELSE OtherValue(f)] :
         present \in SUBSET FieldSet, e \in EmailValues}

\* urlParams.get(f) || ''
extractUserParams(query) ==
    [f \in FieldSet |-> IF f \in DOMAIN query /\ Truthy(query[f]) THEN query[f] ELSE EmptyString]

\* A mutant: hasUserInfo without the trim.
hasUserInfoNoTrim(up) == Truthy(up.email)

hasUserInfo(up) == Truthy(up.email) /\ Truthy(Trim(up.email))

\* A mutant: the user parameters are set without asking hasUserInfo.
RECURSIVE SetFrom(_, _, _)
SetFrom(params, up, i) ==
    IF i > Len(Fields) THEN params
    ELSE SetFrom(IF Truthy(up[Fields[i]])
                 THEN ParamsSet(params, <<Fields[i]>>, up[Fields[i]])
                 ELSE params,
                 up, i + 1)

setUserParamsUngated(params, up) == SetFrom(params, up, 1)

\* if (this.hasUserInfo()) { if (this.userParams.email) params.set('email', ...); ... }
setUserParams(params, up) ==
    IF hasUserInfo(up) THEN SetFrom(params, up, 1) ELSE params

\* Object.entries(additionalParams).forEach(([key, value]) => { if (value) params.set(key, value); })
RECURSIVE setAdditionalParams(_, _)
setAdditionalParams(params, entries) ==
    IF entries = <<>> THEN params
    ELSE setAdditionalParams(
             IF Truthy(Head(entries).value)
             THEN ParamsSet(params, Head(entries).name, Head(entries).value)
             ELSE params,
             Tail(entries))

\* An argument of a call is a JavaScript value.  baseUrl is a string or not
\* (text is then what String(baseUrl) gives); additionalParams is an object,
\* given as its entries in Object.entries order, or null.  A call made with
\* additionalParams undefined takes the default {}.
StringValue(s) == [isString |-> TRUE, text |-> s]

NumberValue(s) == [isString |-> FALSE, text |-> s]

ObjectValue(entries) == [isNull |-> FALSE, entries |-> entries]

NullValue == [isNull |-> TRUE, entries |-> <<>>]

Returned(v) == [threw |-> FALSE, value |-> v]

Thrown == [threw |-> TRUE, value |-> StringValue(<<"TypeError">>)]

\* baseUrl.includes('?') ? '&' : '?'
separator(text) == IF Includes(text, <<"?">>) THEN <<"&">> ELSE <<"?">>

separatorAlwaysQuestionMark(text) == <<"?">>

buildURLWithParams(up, baseUrl, additionalParams) ==
    \* line 39: Object.keys(null) throws a TypeError, before the try
    IF ~hasUserInfo(up) /\ additionalParams.isNull THEN Thrown
    ELSE IF ~hasUserInfo(up) /\ Len(additionalParams.entries) = 0 THEN Returned(baseUrl)
    \* try: Object.entries(null) throws, and the catch returns baseUrl
    ELSE IF additionalParams.isNull THEN Returned(baseUrl)
    ELSE LET params == setAdditionalParams(setUserParams(<<>>, up), additionalParams.entries)
             paramString == ParamsToString(params)
         IN  IF Truthy(paramString)
             \* baseUrl.includes is not a function of a non-string: caught
             THEN IF ~baseUrl.isString THEN Returned(baseUrl)
                  ELSE Returned(StringValue(baseUrl.text \o separator(baseUrl.text) \o paramString))
             ELSE Returned(baseUrl)

-----------------------------------------------------------------------------
(***************************************************************************)
(* URLParamsHandler: the anchors of the page and updateAllLinks            *)
(***************************************************************************)

\* The <a> elements a page can hold, in document order.
AnchorPool == <<"pricingLink", "guideLink", "getStartedBtn", "indexLink">>

AnchorSet == {AnchorPool[i] : i \in 1..Len(AnchorPool)}

\* The href attribute an element has in the page markup.
MarkupHref(a) ==
    CASE a = "pricingLink"   -> <<"pricing.html">>
      [] a = "guideLink"     -> <<"user-guide.html">>
      [] a = "getStartedBtn" -> <<"#">>
      [] a = "indexLink"     -> <<"index.html">>

\* The id attribute of an element ("" for none).
ElementId(a) == IF a = "getStartedBtn" THEN "getStartedBtn" ELSE ""

\* linkElement.href reads the attribute resolved against the page's URL.
Origin == <<"https://site/">>

Resolve(attr) == Origin \o attr

NoRun == [trigger |-> "none", written |-> {}]

\* A mutant: updateLink without the comparison with targetPage.
updateLinkAnyUrl(up, attr, targetPage) ==
    LET originalHref == Resolve(attr)
        newUrl == buildURLWithParams(up, StringValue(targetPage), ObjectValue(<<>>)).value.text
    IN  IF newUrl # originalHref
        THEN [wrote |-> TRUE, href |-> newUrl]
        ELSE [wrote |-> FALSE, href |-> attr]

\* updateLink(linkElement, targetPage): the href attribute afterwards, and
\* whether linkElement.href was assigned.
updateLink(up, attr, targetPage) ==
    LET originalHref == Resolve(attr)
        newUrl == buildURLWithParams(up, StringValue(targetPage), ObjectValue(<<>>)).value.text
    IN  IF newUrl # originalHref /\ newUrl # targetPage
        THEN [wrote |-> TRUE, href |-> newUrl]
        ELSE [wrote |-> FALSE, href |-> attr]

\* links.forEach(link => this.updateLink(link, targetPage)) over the elements
\* a selector list matched; dom is [anchors, written].
updateLinks(up, dom, matched, targetPage) ==
    [anchors |-> [a \in DOMAIN dom.anchors |->
                      IF a \in matched
                      THEN updateLink(up, dom.anchors[a], targetPage).href
                      ELSE dom.anchors[a]],
     written |-> dom.written \cup
                 {a \in matched : updateLink(up, dom.anchors[a], targetPage).wrote}]

\* document.querySelectorAll('a[href="page"]') and ('a[href*="page"]')
linksTo(anc, page) == {a \in DOMAIN anc : Includes(anc[a], <<page>>)}

\* document.getElementById(id), when the element exists
byId(anc, id) == {a \in DOMAIN anc : ElementId(a) = id}

pricingLinks(anc) ==
    linksTo(anc, "pricing.html") \cup byId(anc, "pricingNavLink") \cup byId(anc, "getStartedBtn")

\* part_001: the pages whose links are updated after pricing and user-guide
websitePages == <<"terms.html", "privacy.html", "refund.html", "index.html">>

RECURSIVE updateWebsitePages(_, _, _)
updateWebsitePages(up, dom, i) ==
    IF i > Len(websitePages) THEN dom
    ELSE updateWebsitePages(
             up,
             updateLinks(up, dom, linksTo(dom.anchors, websitePages[i]), <<websitePages[i]>>),
             i + 1)

\* updateAllLinks of part_000 (the index links are collected and left alone)
updateAllLinksUngated(up, anc) ==
    LET start   == [anchors |-> anc, written |-> {}]
        pricing == updateLinks(up, start, pricingLinks(anc), <<"pricing.html">>)
        guide   == updateLinks(up, pricing, linksTo(pricing.anchors, "user-guide.html"),
                               <<"user-guide.html">>)
    IN  guide

\* updateAllLinks of part_001
updateAllLinksGated(up, anc) ==
    IF ~hasUserInfo(up) THEN [anchors |-> anc, written |-> {}]
    ELSE LET start   == [anchors |-> anc, written |-> {}]
             pricing == updateLinks(up, start, pricingLinks(anc), <<"pricing.html">>)
             guide   == updateLinks(up, pricing, linksTo(pricing.anchors, "user-guide.html"),
                                    <<"user-guide.html">>)
         IN  updateWebsitePages(up, guide, 1)

updateAllLinks(v, up, anc) ==
    IF v = "gated" THEN updateAllLinksGated(up, anc) ELSE updateAllLinksUngated(up, anc)

-----------------------------------------------------------------------------
(***************************************************************************)
(* UserGuideApp: the data                                                  *)
(***************************************************************************)

\* The keys of navSections, in their order.
Keys == <<"scenarios", "providers", "basic", "advanced", "privacy", "subscription", "support">>

KeySet == {Keys[i] : i \in 1..Len(Keys)}

IndexOf(key) == IF key \in KeySet THEN CHOOSE i \in 1..Len(Keys) : Keys[i] = key ELSE 0

Langs == {"en", "zh"}

\* A property every object literal inherits from Object.prototype: data[name]
\* is then a function, which is truthy and has no content.
ObjectPrototypeKeys == {"constructor"}

\* this.guideData: null, or { en: {...}, zh: {...} }, each given by the keys
\* of its sections.
NullData == [loaded |-> FALSE, docs |-> [l \in Langs |-> {}]]

Loaded(en, zh) == [loaded |-> TRUE, docs |-> [l \in Langs |-> IF l = "en" THEN en ELSE zh]]

\* getStaticEnContent() and getStaticZhContent(): all seven sections
StaticContent == Loaded(KeySet, KeySet)

\* What parseMarkdown makes of the two fetched documents in the model: the
\* guides; guides of which the Chinese one has no advanced section; two
\* documents without a section heading (the text of an error page).
FetchedContents ==
    {Loaded(KeySet, KeySet), Loaded(KeySet, KeySet \ {"advanced"}), Loaded({}, {})}

\* #guideArticle: as in the markup, the error panel, or a section converted
Blank == [kind |-> "blank", lang |-> "", key |-> ""]

ErrorPanel == [kind |-> "error", lang |-> "", key |-> ""]

Rendered(lang, key) == [kind |-> "section", lang |-> lang, key |-> key]

\* #breadcrumb: the current item is the title of the section in the language
\* of this.sections, or the key itself when this.sections has no such entry
NoCrumb == [key |-> "", titles |-> ""]

Crumb(key, titles) == [key |-> key, titles |-> titles]

\* window.location: the hash without '#', and the lang query parameter
Location(hash, hasLang, lang) == [hash |-> hash, hasLang |-> hasLang, lang |-> lang]

NoOp == [op |-> "none", key |-> "", show |-> "none", threw |-> FALSE]

NoRunOfSwitches == [n |-> 0, lang |-> "", section |-> "", url |-> Location("", FALSE, "")]

NoSearch == [ran |-> FALSE, query |-> EmptyString, lang |-> "", results |-> <<>>,
             before |-> {}, inputs |-> 0]

\* A page that does not load the guide's script.
NoGuide ==
    /\ guideVariant = "embedded"
    /\ pc = "loading"
    /\ currentLang = ""
    /\ currentSection = ""
    /\ guideData = NullData
    /\ sections = ""
    /\ activeNav = ""
    /\ article = Blank
    /\ breadcrumb = NoCrumb
    /\ prevBtn = ""
    /\ nextBtn = ""
    /\ url = Location("", FALSE, "")
    /\ historyLength = 1
    /\ pageLoads = 0
    /\ darkTheme = FALSE
    /\ savedTheme = ""
    /\ lastOp = NoOp
    /\ switched = NoRunOfSwitches
    /\ searchIndex = <<>>
    /\ searchBound = FALSE
    /\ searchInput = EmptyString
    /\ searchTimers = 0
    /\ searchMatch = {}
    /\ lastSearch = NoSearch
    /\ burst = 0

\* parseMarkdown and markdownToHtml before they are called: the argument (the
\* empty string where none is drawn) and no result.
NoParse == [made |-> FALSE, content |-> EmptyString, sections |-> <<>>, from |-> <<>>,
            source |-> "none"]

NoRender == [made |-> FALSE, markdown |-> EmptyString, threw |-> FALSE, html |-> EmptyString]

NoText ==
    /\ lastParse = NoParse
    /\ lastRender = NoRender

-----------------------------------------------------------------------------
(***************************************************************************)
(* URLParamsHandler: buildURLWithParams called on its own                  *)
(***************************************************************************)

NoCall == [made |-> FALSE, baseUrl |-> StringValue(<<>>), additionalParams |-> ObjectValue(<<>>),
           result |-> Returned(StringValue(<<>>))]

\* The baseUrl arguments of the model: a page, a page with a query string, a number.
BaseArgs ==
    {StringValue(<<"pricing.html">>),
     StringValue(<<"pricing.html", "?", "x", "=", "1">>),
     NumberValue(<<"4", "2">>)}

Entry(name, value) == [name |-> name, value |-> value]

\* The additionalParams arguments of the model: {}, {x: '1'}, {x: ''},
\* {x: '1', plan: 'vip'}, {email: 'z'} and null.
ExtraArgs ==
    {ObjectValue(<<>>),
     ObjectValue(<<Entry(<<"x">>, <<"1">>)>>),
     ObjectValue(<<Entry(<<"x">>, EmptyString)>>),
     ObjectValue(<<Entry(<<"x">>, <<"1">>), Entry(<<"plan">>, <<"v", "i", "p">>)>>),
     ObjectValue(<<Entry(<<"email">>, <<"z">>)>>),
     NullValue}

\* new URLParamsHandler() on a page whose URL no anchor matters to
InitBuild ==
    /\ variant = "gated"
    /\ userParams \in {extractUserParams(q) : q \in PageQueries}
    /\ lastCall = NoCall
    /\ anchors = <<>>
    /\ ready = FALSE
    /\ pendingTimers = 0
    /\ lastRun = NoRun
    /\ NoGuide
    /\ NoText

\* window.urlParamsHandler.buildURLWithParams(baseUrl, additionalParams)
callBuildURL(baseUrl, additionalParams) ==
    /\ lastCall' = [made |-> TRUE, baseUrl |-> baseUrl, additionalParams |-> additionalParams,
                    result |-> buildURLWithParams(userParams, baseUrl, additionalParams)]
    /\ UNCHANGED <<variant, userParams, anchors, ready, pendingTimers, lastRun>>
    /\ UNCHANGED varsGuide
    /\ UNCHANGED varsText

NextBuild == \E b \in BaseArgs, x \in ExtraArgs : callBuildURL(b, x)

SpecBuild == InitBuild /\ [][NextBuild]_vars

-----------------------------------------------------------------------------
(***************************************************************************)
(* URLParamsHandler: the page's life                                       *)
(***************************************************************************)

\* The query strings of the pages in the model: no parameter; a blank email
\* with a plan; an email; an email with source and plan; an email with the
\* source index.html.
LinkQueries ==
    {[f \in {} |-> EmptyString],
     [f \in {"email", "plan"} |-> IF f = "email" THEN <<" ">> ELSE OtherValue(f)],
     [f \in {"email"} |-> EmailAB],
     [f \in {"email", "source", "plan"} |-> IF f = "email" THEN EmailAB ELSE OtherValue(f)],
     [f \in {"email", "source"} |-> IF f = "email" THEN EmailAB ELSE <<"index.html">>]}

\* The newParams arguments of updateUserParams in the model.
NewParams ==
    {[f \in {"email"} |-> EmptyString],
     [f \in {"email"} |-> EmailAB],
     [f \in {"email"} |-> <<"z">>]}

InitLinks ==
    /\ variant \in {"gated", "ungated"}
    /\ userParams \in {extractUserParams(q) : q \in LinkQueries}
    /\ lastCall = NoCall
    /\ \E present \in SUBSET AnchorSet : anchors = [a \in present |-> MarkupHref(a)]
    /\ ready = FALSE
    /\ pendingTimers = 0
    /\ lastRun = NoRun
    /\ NoGuide
    /\ NoText

\* One run of updateAllLinks, with what set it off.
runUpdateAllLinks(trigger, up) ==
    LET after == updateAllLinks(variant, up, anchors)
    IN  /\ anchors' = after.anchors
        /\ lastRun' = [trigger |-> trigger, written |-> after.written]

\* doInit, on DOMContentLoaded or 50 ms after the script ran:
\* this.updateAllLinks(); this.observeNewLinks()
doInit ==
    /\ ~ready
    /\ runUpdateAllLinks("init", userParams)
    /\ ready' = TRUE
    /\ UNCHANGED <<variant, userParams, lastCall, pendingTimers>>
    /\ UNCHANGED varsGuide
    /\ UNCHANGED varsText

\* A mutant: the observer's callback does not see the added node.
insertAnchorUnobserved(a) ==
    /\ a \notin DOMAIN anchors
    /\ anchors' = [b \in DOMAIN anchors \cup {a} |-> IF b = a THEN MarkupHref(a) ELSE anchors[b]]
    /\ pendingTimers' = pendingTimers
    /\ UNCHANGED <<variant, userParams, lastCall, ready, lastRun>>
    /\ UNCHANGED varsGuide
    /\ UNCHANGED varsText

\* Another script inserts an <a> element.  Once the observer observes, its
\* callback sees the added node and calls setTimeout(updateAllLinks, 100).
insertAnchor(a) ==
    /\ a \notin DOMAIN anchors
    /\ anchors' = [b \in DOMAIN anchors \cup {a} |-> IF b = a THEN MarkupHref(a) ELSE anchors[b]]
    /\ pendingTimers' = IF ready THEN pendingTimers + 1 ELSE pendingTimers
    /\ UNCHANGED <<variant, userParams, lastCall, ready, lastRun>>
    /\ UNCHANGED varsGuide
    /\ UNCHANGED varsText

\* A mutant: the observer observes attributes too, and a run that assigns an
\* href sets a timer of its own.
timerFiresObservingAttributes ==
    /\ pendingTimers > 0
    /\ runUpdateAllLinks("mutation", userParams)
    /\ pendingTimers' = (pendingTimers - 1) + (IF lastRun'.written # {} THEN 1 ELSE 0)
    /\ UNCHANGED <<variant, userParams, lastCall, ready>>
    /\ UNCHANGED varsGuide
    /\ UNCHANGED varsText

\* A pending timer of the observer's callback fires.
timerFires ==
    /\ pendingTimers > 0
    /\ pendingTimers' = pendingTimers - 1
    /\ runUpdateAllLinks("mutation", userParams)
    /\ UNCHANGED <<variant, userParams, lastCall, ready>>
    /\ UNCHANGED varsGuide
    /\ UNCHANGED varsText

\* window.forceUpdateLinks()
forceUpdateLinks ==
    /\ runUpdateAllLinks("forced", userParams)
    /\ UNCHANGED <<variant, userParams, lastCall, ready, pendingTimers>>
    /\ UNCHANGED varsGuide
    /\ UNCHANGED varsText

\* A mutant: newParams replaces userParams.
updateUserParamsReplaces(newParams) ==
    LET merged == [f \in FieldSet |-> IF f \in DOMAIN newParams THEN newParams[f] ELSE EmptyString]
    IN  /\ userParams' = merged
        /\ runUpdateAllLinks("updateUserParams", merged)
        /\ UNCHANGED <<variant, lastCall, ready, pendingTimers>>
        /\ UNCHANGED varsGuide
        /\ UNCHANGED varsText

\* updateUserParams(newParams): { ...this.userParams, ...newParams }, then updateAllLinks
updateUserParams(newParams) ==
    LET merged == [f \in FieldSet |-> IF f \in DOMAIN newParams THEN newParams[f] ELSE userParams[f]]
    IN  /\ userParams' = merged
        /\ runUpdateAllLinks("updateUserParams", merged)
        /\ UNCHANGED <<variant, lastCall, ready, pendingTimers>>
        /\ UNCHANGED varsGuide
        /\ UNCHANGED varsText

NextLinks ==
    \/ doInit
    \/ \E a \in AnchorSet : insertAnchor(a)
    \/ timerFires
    \/ forceUpdateLinks
    \/ \E n \in NewParams : updateUserParams(n)

SpecLinks == InitLinks /\ [][NextLinks]_vars

\* The browser runs what is scheduled: doInit (on DOMContentLoaded, or 50 ms
\* after the script) and every pending timer of the observer's callback.
\* In SpecLinks the step that sets ready is the doInit step, and a step that
\* takes a timer from the pending ones is a timerFires step.
doInitDue == ~ready /\ ready' = TRUE

timerDue == pendingTimers > 0 /\ pendingTimers' = pendingTimers - 1

SpecLinksFair == SpecLinks /\ WF_ready(doInitDue) /\ WF_pendingTimers(timerDue)

-----------------------------------------------------------------------------
(***************************************************************************)
(* Claims about URLParamsHandler                                           *)
(***************************************************************************)

\* The email has a character that is not white space.
NonBlank(email) == \E i \in 1..Len(email) : email[i] \notin Whitespace

NoKeys(extra) == ~extra.isNull /\ Len(extra.entries) = 0

\* C1: whenever the email is empty or blank and the extra-parameters object
\* has no keys, buildURLWithParams returns its base argument itself, for
\* every base and whatever the other five parameters hold.
C1_UnchangedForAnonymous ==
    (lastCall.made /\ ~NonBlank(userParams.email) /\ NoKeys(lastCall.additionalParams))
        => lastCall.result = Returned(lastCall.baseUrl)

C1_Witness ==
    /\ lastCall.made
    /\ userParams.email = <<" ">>
    /\ userParams.userName # EmptyString
    /\ userParams.plan # EmptyString
    /\ NoKeys(lastCall.additionalParams)
    /\ lastCall.baseUrl = StringValue(<<"pricing.html">>)
    /\ lastCall.result = Returned(StringValue(<<"pricing.html">>))

\* The attribution parameters that are not empty, in the order of Fields.
PresentPairs(up) ==
    LET all == [i \in 1..Len(Fields) |-> Entry(<<Fields[i]>>, up[Fields[i]])]
        Present(p) == p.value # EmptyString
    IN  SelectSeq(all, Present)

\* The extra parameters whose value is truthy, in the order of the entries.
TruthyEntries(extra) ==
    LET Kept(p) == p.value # EmptyString
    IN  SelectSeq(extra.entries, Kept)

Names(pairs) == {pairs[i].name : i \in 1..Len(pairs)}

\* The call C2 is about: a user is known, the base is a string, the extra
\* parameters are an object.
C2_Case ==
    /\ lastCall.made
    /\ NonBlank(userParams.email)
    /\ lastCall.baseUrl.isString
    /\ ~lastCall.additionalParams.isNull

JoinedOnto(base, pairs) ==
    Returned(StringValue(
        base \o (IF \E i \in 1..Len(base) : base[i] = "?" THEN <<"&">> ELSE <<"?">>)
             \o ParamsToString(pairs)))

\* C2 as stated: the result is base, the separator, then every attribution
\* parameter that is not empty and then every extra parameter with a truthy
\* value.
C2_AsClaimed ==
    C2_Case =>
        lastCall.result =
            JoinedOnto(lastCall.baseUrl.text,
                       PresentPairs(userParams) \o TruthyEntries(lastCall.additionalParams))

\* C2, amended: the result is base, the separator, then every attribution
\* parameter that is not empty, in order, each with the value of the truthy
\* extra parameter of the same name if there is one and with its own value
\* otherwise, and then the truthy extra parameters of other names.
C2_QueryAppended ==
    C2_Case =>
        LET own     == PresentPairs(userParams)
            extras  == TruthyEntries(lastCall.additionalParams)
            Fresh(p) == p.name \notin Names(own)
            merged  == [i \in 1..Len(own) |->
                           IF own[i].name \in Names(extras)
                           THEN CHOOSE p \in {extras[j] : j \in 1..Len(extras)} :
                                    p.name = own[i].name
                           ELSE own[i]]
        IN  lastCall.result =
                JoinedOnto(lastCall.baseUrl.text, merged \o SelectSeq(extras, Fresh))

\* A call whose extra parameters name plan, which userParams holds too, on a
\* base that has a query string.
C2_Witness ==
    /\ C2_Case
    /\ userParams.email = EmailAB
    /\ userParams.plan = <<"p", "r", "o">>
    /\ \A f \in FieldSet \ {"email", "plan"} : userParams[f] = EmptyString
    /\ lastCall.baseUrl.text = <<"pricing.html", "?", "x", "=", "1">>
    /\ lastCall.additionalParams =
           ObjectValue(<<Entry(<<"x">>, <<"1">>), Entry(<<"plan">>, <<"v", "i", "p">>)>>)
    /\ lastCall.result.value.text =
           <<"pricing.html", "?", "x", "=", "1", "&",
             "email", "=", "a", "%", "4", "0", "b", ".", "c", "o", "m", "&",
             "plan", "=", "v", "i", "p", "&",
             "x", "=", "1">>

\* C3: hasUserInfo() is true iff the email has a character that is not white
\* space; and when it is false, a URL that buildURLWithParams returns is the
\* base alone or the base with the truthy extra parameters alone: nothing of
\* userParams is in it.
C3_GatedOnEmail ==
    /\ hasUserInfo(userParams) <=> NonBlank(userParams.email)
    /\ (lastCall.made /\ ~NonBlank(userParams.email) /\ ~lastCall.result.threw)
           => LET extras == TruthyEntries(lastCall.additionalParams)
              IN  lastCall.result =
                      IF extras = <<>> \/ ~lastCall.baseUrl.isString
                      THEN Returned(lastCall.baseUrl)
                      ELSE JoinedOnto(lastCall.baseUrl.text, extras)

C3_Witness ==
    /\ lastCall.made
    /\ userParams.email = <<" ">>
    /\ \A f \in FieldSet \ {"email"} : userParams[f] # EmptyString
    /\ lastCall.additionalParams = ObjectValue(<<Entry(<<"x">>, <<"1">>)>>)
    /\ lastCall.result = Returned(StringValue(<<"pricing.html", "?", "x", "=", "1">>))

\* C4: a run of updateAllLinks, whatever set it off and in either variant,
\* assigns no anchor's href while hasUserInfo() is false.
C4_NoWriteWithoutUser ==
    (lastRun.trigger # "none" /\ ~NonBlank(userParams.email)) => lastRun.written = {}

C4_Witness ==
    /\ variant = "ungated"
    /\ lastRun.trigger = "updateUserParams"
    /\ userParams.email = EmptyString
    /\ userParams.plan # EmptyString
    /\ DOMAIN anchors = AnchorSet
    /\ lastRun.written = {}

\* C5: buildURLWithParams never throws, and an internal failure makes it
\* return the base it was given.
C5_NeverThrows ==
    lastCall.made =>
        /\ ~lastCall.result.threw
        /\ (lastCall.additionalParams.isNull \/ ~lastCall.baseUrl.isString)
               => lastCall.result = Returned(lastCall.baseUrl)

-----------------------------------------------------------------------------
(***************************************************************************)
(* UserGuideApp: the methods, on a view v of the application and the page  *)
(***************************************************************************)

View ==
    [currentLang |-> currentLang, currentSection |-> currentSection, guideData |-> guideData,
     sections |-> sections, activeNav |-> activeNav, article |-> article,
     breadcrumb |-> breadcrumb, prevBtn |-> prevBtn, nextBtn |-> nextBtn, url |-> url,
     historyLength |-> historyLength, searchMatch |-> searchMatch]

\* params.get('lang') || 'en'
getLanguageFromURL(u) == IF u.hasLang /\ u.lang # "" THEN u.lang ELSE "en"

\* A mutant: the hash is not read.
getSectionFromURLDefault(u) == "scenarios"

\* hash || 'scenarios'
getSectionFromURL(u) == IF u.hash # "" THEN u.hash ELSE "scenarios"

\* A mutant: the URL is pushed, not replaced.
updateURLPushState(v, section) ==
    [v EXCEPT !.url = Location(section, TRUE, v.currentLang),
              !.historyLength = v.historyLength + 1]

\* A mutant: the lang parameter is not written.
updateURLHashOnly(v, section) ==
    [v EXCEPT !.url = Location(section, v.url.hasLang, v.url.lang)]

\* url.hash = section; url.searchParams.set('lang', this.currentLang);
\* window.history.replaceState({}, '', url)
updateURL(v, section) ==
    [v EXCEPT !.url = Location(section, TRUE, v.currentLang)]

showError(v) == [v EXCEPT !.article = ErrorPanel]

\* this.guideData[lang] is an object for en and zh, undefined for another lang
HasData(gd, lang) == lang \in Langs

\* data[sectionKey] is truthy: a section, or an inherited property
HasProperty(gd, lang, key) == key \in gd.docs[lang] \/ key \in ObjectPrototypeKeys

\* the title of an entry of navSections is Chinese for zh, English otherwise
TitleLang(lang) == IF lang = "zh" THEN "zh" ELSE "en"

\* A mutant: the navigation is rendered for English only.
renderNavigationEnglishOnly(v) ==
    IF ~v.guideData.loaded THEN [v |-> v, threw |-> TRUE]
    ELSE IF v.currentLang # "en" THEN [v |-> v, threw |-> FALSE]
    ELSE [v |-> [v EXCEPT !.sections = TitleLang(v.currentLang), !.activeNav = "",
                          !.searchMatch = {}],
          threw |-> FALSE]

\* renderNavigation(): reading this.guideData[this.currentLang] throws a
\* TypeError while guideData is null.  Assigning nav.innerHTML replaces the
\* entries, so none is active or a search match afterwards.
renderNavigation(v) ==
    IF ~v.guideData.loaded THEN [v |-> v, threw |-> TRUE]
    ELSE IF ~HasData(v.guideData, v.currentLang) THEN [v |-> v, threw |-> FALSE]
    ELSE [v |-> [v EXCEPT !.sections = TitleLang(v.currentLang), !.activeNav = "",
                          !.searchMatch = {}],
          threw |-> FALSE]

\* A mutant: the previous button is disabled at the second entry too.
updatePaginationOffByOne(v, currentKey) ==
    LET length       == IF v.sections = "" THEN 0 ELSE Len(Keys)
        currentIndex == IF v.sections = "" THEN -1 ELSE IndexOf(currentKey) - 1
    IN  [v EXCEPT !.prevBtn = IF currentIndex > 1 THEN Keys[currentIndex] ELSE "",
                  !.nextBtn = IF currentIndex < length - 1 THEN Keys[currentIndex + 2] ELSE ""]

\* updatePagination(currentKey): findIndex gives -1 when this.sections has no
\* entry of that key.
updatePagination(v, currentKey) ==
    LET length       == IF v.sections = "" THEN 0 ELSE Len(Keys)
        currentIndex == IF v.sections = "" THEN -1 ELSE IndexOf(currentKey) - 1
    IN  [v EXCEPT !.prevBtn = IF currentIndex > 0 THEN Keys[currentIndex] ELSE "",
                  !.nextBtn = IF currentIndex < length - 1 THEN Keys[currentIndex + 2] ELSE ""]

\* showSection(sectionKey).  show tells how it ended: "rendered", "error"
\* (showError() and return), or "threw" (a TypeError: guideData is null, or
\* content.content is undefined and markdownToHtml calls replace on it).
showSection(v, sectionKey) ==
    LET marked == [v EXCEPT !.activeNav =
                       IF v.sections # "" /\ sectionKey \in KeySet THEN sectionKey ELSE ""]
    IN  IF ~v.guideData.loaded THEN [v |-> marked, show |-> "threw"]
        ELSE IF \/ ~HasData(v.guideData, v.currentLang)
                \/ ~HasProperty(v.guideData, v.currentLang, sectionKey)
        THEN [v |-> showError(marked), show |-> "error"]
        ELSE IF sectionKey \notin v.guideData.docs[v.currentLang]
        THEN [v |-> marked, show |-> "threw"]
        ELSE LET shown == [marked EXCEPT
                               !.article = Rendered(v.currentLang, sectionKey),
                               !.breadcrumb = Crumb(sectionKey, v.sections)]
                 paged == updatePagination(shown, sectionKey)
                 moved == [paged EXCEPT !.currentSection = sectionKey]
             IN  [v |-> updateURL(moved, sectionKey), show |-> "rendered"]

\* A mutant: the language is set to zh, not toggled.
switchLanguageToZh(v) ==
    LET toggled == [v EXCEPT !.currentLang = "zh"]
        nav     == renderNavigation(toggled)
        shown   == showSection(nav.v, nav.v.currentSection)
    IN  IF nav.threw THEN [v |-> nav.v, show |-> "none", threw |-> TRUE]
        ELSE IF shown.show = "threw" THEN [v |-> shown.v, show |-> "threw", threw |-> TRUE]
        ELSE [v |-> updateURL(shown.v, shown.v.currentSection), show |-> shown.show,
              threw |-> FALSE]

\* switchLanguage(): toggle, updateLanguageToggle(), renderNavigation(),
\* showSection(this.currentSection), updateURL(this.currentSection)
switchLanguage(v) ==
    LET toggled == [v EXCEPT !.currentLang = IF v.currentLang = "en" THEN "zh" ELSE "en"]
        nav     == renderNavigation(toggled)
        shown   == showSection(nav.v, nav.v.currentSection)
    IN  IF nav.threw THEN [v |-> nav.v, show |-> "none", threw |-> TRUE]
        ELSE IF shown.show = "threw" THEN [v |-> shown.v, show |-> "threw", threw |-> TRUE]
        ELSE [v |-> updateURL(shown.v, shown.v.currentSection), show |-> shown.show,
              threw |-> FALSE]

\* init() from renderNavigation() on: renderNavigation(),
\* showSection(this.currentSection), updateLanguageToggle(), ...
initAfterLoad(v) ==
    LET nav   == renderNavigation(v)
        shown == showSection(nav.v, nav.v.currentSection)
    IN  IF nav.threw THEN [v |-> nav.v, show |-> "none", threw |-> TRUE]
        ELSE [v |-> shown.v, show |-> shown.show, threw |-> shown.show = "threw"]

-----------------------------------------------------------------------------
(***************************************************************************)
(* UserGuideApp: the documents and the search (src/user-guide.js)          *)
(*                                                                         *)
(* A character outside ASCII, and the grave accent U+0060, is the token    *)
(* that names its code point.                                              *)
(***************************************************************************)

\* The title of an entry of navSections (lines 119-125).
NavTitle(lang, key) ==
    CASE lang = "en" /\ key = "scenarios" ->
           <<"A", "p", "p", "l", "i", "c", "a", "t", "i", "o", "n", " ", "S", "c", "e",
             "n", "a", "r", "i", "o", "s">>
      [] lang = "en" /\ key = "providers" ->
           <<"A", "I", " ", "P", "r", "o", "v", "i", "d", "e", "r", " ", "S", "e", "t",
             "u", "p">>
      [] lang = "en" /\ key = "basic" ->
           <<"B", "a", "s", "i", "c", " ", "F", "u", "n", "c", "t", "i", "o", "n", "s">>
      [] lang = "en" /\ key = "advanced" ->
           <<"A", "d", "v", "a", "n", "c", "e", "d", " ", "F", "e", "a", "t", "u", "r",
             "e", "s">>
      [] lang = "en" /\ key = "privacy" ->
           <<"P", "r", "i", "v", "a", "c", "y", " ", "&", " ", "S", "e", "c", "u", "r",
             "i", "t", "y">>
      [] lang = "en" /\ key = "subscription" ->
           <<"S", "u", "b", "s", "c", "r", "i", "p", "t", "i", "o", "n", " ", "P", "o",
             "l", "i", "c", "y">>
      [] lang = "en" /\ key = "support" ->
           <<"S", "u", "p", "p", "o", "r", "t", " ", "&", " ", "F", "e", "e", "d", "b",
             "a", "c", "k">>
      [] lang = "zh" /\ key = "scenarios" ->
           <<"U+5E94", "U+7528", "U+573A", "U+666F">>
      [] lang = "zh" /\ key = "providers" ->
           <<"A", "I", "U+4F9B", "U+5E94", "U+5546", "U+914D", "U+7F6E">>
      [] lang = "zh" /\ key = "basic" ->
           <<"U+57FA", "U+7840", "U+529F", "U+80FD">>
      [] lang = "zh" /\ key = "advanced" ->
           <<"U+9AD8", "U+7EA7", "U+529F", "U+80FD">>
      [] lang = "zh" /\ key = "privacy" ->
           <<"U+9690", "U+79C1", "U+4E0E", "U+5B89", "U+5168">>
      [] lang = "zh" /\ key = "subscription" ->
           <<"U+8BA2", "U+9605", "U+653F", "U+7B56">>
      [] lang = "zh" /\ key = "support" ->
           <<"U+652F", "U+6301", "U+4E0E", "U+53CD", "U+9988">>

\* The emoji a section's heading starts with.
Icon(key) ==
    CASE key = "scenarios" -> <<"U+1F3AF">>
      [] key = "providers" -> <<"U+1F517">>
      [] key = "basic" -> <<"U+2699", "U+FE0F">>
      [] key = "advanced" -> <<"U+1F680">>
      [] key = "privacy" -> <<"U+1F512">>
      [] key = "subscription" -> <<"U+1F48E">>
      [] key = "support" -> <<"U+1F4DE">>

\* The text under the heading of a section in the documents of the model.
Body(lang, key) ==
    CASE lang = "en" /\ key = "scenarios" ->
           <<"P", "l", "a", "n", " ", "i", "t", ".">>
      [] lang = "en" /\ key = "providers" ->
           <<"A", "d", "d", " ", "a", " ", "[", "k", "e", "y", "]", "(", "k", ")", ".">>
      [] lang = "en" /\ key = "basic" ->
           <<"R", "u", "n", " ", "a", " ", "U+0060", "b", "U+0060", "c", ".">>
      [] lang = "en" /\ key = "advanced" ->
           <<"*", "*", "P", "r", "o", "*", "*", " ", "m", "o", "d", "e", ".">>
      [] lang = "en" /\ key = "privacy" ->
           <<"L", "o", "c", "a", "l", ".">>
      [] lang = "en" /\ key = "subscription" ->
           <<"M", "o", "n", "t", "h", "l", "y", ".">>
      [] lang = "en" /\ key = "support" ->
           <<"M", "a", "i", "l", " ", "u", "s", ".">>
      [] lang = "zh" /\ key = "advanced" ->
           <<"P", "r", "o", " ", "U+7248">>
      [] OTHER -> NavTitle(lang, key)

\* A section as parseMarkdown stores it: the heading line without "## ", and
\* the lines from the heading on, joined by "\n".
SectionTitle(lang, key) == Icon(key) \o <<" ">> \o NavTitle(lang, key)

SectionContent(lang, key) ==
    <<"#", "#", " ">> \o SectionTitle(lang, key) \o <<"\n", "\n">> \o Body(lang, key)

UpperCaseLetters ==
    <<"A", "B", "C", "D", "E", "F", "G", "H", "I", "J", "K", "L", "M",
      "N", "O", "P", "Q", "R", "S", "T", "U", "V", "W", "X", "Y", "Z">>

LowerCaseLetters ==
    <<"a", "b", "c", "d", "e", "f", "g", "h", "i", "j", "k", "l", "m",
      "n", "o", "p", "q", "r", "s", "t", "u", "v", "w", "x", "y", "z">>

\* String.prototype.toLowerCase
toLowerCase(s) ==
    [i \in 1..Len(s) |->
        IF \E n \in 1..Len(UpperCaseLetters) : UpperCaseLetters[n] = s[i]
        THEN LowerCaseLetters[CHOOSE n \in 1..Len(UpperCaseLetters) : UpperCaseLetters[n] = s[i]]
        ELSE s[i]]

\* .replace(/[#*\[\]()]/g, ''): the characters # * U+0060 [ ] ( ) are removed
MarkupCharacters == {"#", "*", "U+0060", "[", "]", "(", ")"}

RemoveMarkup(s) ==
    LET Kept(c) == c \notin MarkupCharacters
    IN  SelectSeq(s, Kept)

\* .replace(/\n+/g, ' ')
RECURSIVE JoinLines(_)
JoinLines(s) ==
    IF s = <<>> THEN <<>>
    ELSE IF Head(s) = "\n"
         THEN IF Tail(s) # <<>> /\ Head(Tail(s)) = "\n"
              THEN JoinLines(Tail(s))
              ELSE <<" ">> \o JoinLines(Tail(s))
         ELSE <<Head(s)>> \o JoinLines(Tail(s))

\* A mutant: the text of the index keeps its case.
plainTextKeepsCase(content) == JoinLines(RemoveMarkup(content))

plainText(content) == toLowerCase(JoinLines(RemoveMarkup(content)))

\* Object.keys(data).forEach(...) for one language; the keys come in the
\* order parseMarkdown added them, the order of the headings in the document.
IndexOfLanguage(gd, lang) ==
    LET Present(k) == k \in gd.docs[lang]
        keys == SelectSeq(Keys, Present)
    IN  [i \in 1..Len(keys) |->
            [lang |-> lang, section |-> keys[i],
             title |-> SectionTitle(lang, keys[i]),
             content |-> plainText(SectionContent(lang, keys[i]))]]

\* buildSearchIndex(): ['en', 'zh'].forEach(lang => ...)
buildSearchIndex(gd) == IndexOfLanguage(gd, "en") \o IndexOfLanguage(gd, "zh")

\* .slice(0, 5)
MaxResults == 5

\* item.title.toLowerCase().includes(query.toLowerCase()) ||
\* item.content.includes(query.toLowerCase())
ItemMatches(item, query) ==
    \/ Includes(toLowerCase(item.title), toLowerCase(query))
    \/ Includes(item.content, toLowerCase(query))

\* A mutant: the query is not trimmed before it is tested.
performSearchNoTrim(index, lang, nav, match, query) ==
    IF ~Truthy(query) THEN [results |-> <<>>, searchMatch |-> {}]
    ELSE LET InLang(item) == item.lang = lang
             Hit(item)    == ItemMatches(item, query)
             found        == SelectSeq(SelectSeq(index, InLang), Hit)
             results      == SubSeq(found, 1, IF Len(found) < MaxResults THEN Len(found)
                                                                         ELSE MaxResults)
         IN  IF Len(results) > 0
             THEN [results |-> results,
                   searchMatch |-> IF nav = "" THEN {}
                                   ELSE {results[i].section : i \in 1..Len(results)}]
             ELSE [results |-> results, searchMatch |-> match]

\* performSearch(query): the entries selected, and the keys of class
\* search-match afterwards.  With no entry selected the classes stay as they
\* are; document.querySelector finds an entry of #guideNav when it is rendered.
performSearch(index, lang, nav, match, query) ==
    IF ~Truthy(Trim(query)) THEN [results |-> <<>>, searchMatch |-> {}]
    ELSE LET InLang(item) == item.lang = lang
             Hit(item)    == ItemMatches(item, query)
             found        == SelectSeq(SelectSeq(index, InLang), Hit)
             results      == SubSeq(found, 1, IF Len(found) < MaxResults THEN Len(found)
                                                                         ELSE MaxResults)
         IN  IF Len(results) > 0
             THEN [results |-> results,
                   searchMatch |-> IF nav = "" THEN {}
                                   ELSE {results[i].section : i \in 1..Len(results)}]
             ELSE [results |-> results, searchMatch |-> match]

-----------------------------------------------------------------------------
(***************************************************************************)
(* UserGuideApp: the page's life                                           *)
(***************************************************************************)

\* How often the model lets the user reload the page.
MaxReloads == 1

\* The URLs the page is opened with: no hash, the hash of a section, a hash
\* that names no section, a hash that names an inherited property; no lang,
\* en, zh, a language the guide does not have, or (without a hash) a lang
\* parameter that is empty.
InitialURLs ==
    {Location(h, FALSE, "") : h \in {"", "advanced", "support", "foo", "constructor"}}
    \cup {Location(h, TRUE, l) : h \in {"", "advanced", "support", "foo", "constructor"},
                                 l \in {"en", "zh", "fr"}}
    \cup {Location("", TRUE, "")}

\* The state of the document when the script starts, for a URL and a stored theme.
PageLoaded ==
    /\ pc = "loading"
    /\ currentLang = ""
    /\ currentSection = ""
    /\ guideData = NullData
    /\ sections = ""
    /\ activeNav = ""
    /\ article = Blank
    /\ breadcrumb = NoCrumb
    /\ prevBtn = ""
    /\ nextBtn = ""
    /\ darkTheme = FALSE
    /\ lastOp = NoOp
    /\ switched = NoRunOfSwitches
    /\ searchIndex = <<>>
    /\ searchBound = FALSE
    /\ searchInput = EmptyString
    /\ searchTimers = 0
    /\ searchMatch = {}
    /\ lastSearch = NoSearch
    /\ burst = 0

NoLinks ==
    /\ variant = "gated"
    /\ userParams = extractUserParams(<<>>)
    /\ lastCall = NoCall
    /\ anchors = <<>>
    /\ ready = FALSE
    /\ pendingTimers = 0
    /\ lastRun = NoRun

InitGuide ==
    /\ guideVariant \in {"fetched", "embedded"}
    /\ url \in InitialURLs
    /\ savedTheme \in {"", "dark", "light"}
    /\ historyLength = 1
    /\ pageLoads = 0
    /\ PageLoaded
    /\ NoLinks
    /\ NoText

\* The variables take the values of the view v.
Becomes(v) ==
    /\ currentLang' = v.currentLang
    /\ currentSection' = v.currentSection
    /\ guideData' = v.guideData
    /\ sections' = v.sections
    /\ activeNav' = v.activeNav
    /\ article' = v.article
    /\ breadcrumb' = v.breadcrumb
    /\ prevBtn' = v.prevBtn
    /\ nextBtn' = v.nextBtn
    /\ url' = v.url
    /\ historyLength' = v.historyLength
    /\ searchMatch' = v.searchMatch

Ended(op, key, r) == [op |-> op, key |-> key, show |-> r.show, threw |-> r.threw]

\* A mutant: the class is added for a stored "light".
loadThemePreferenceLight == darkTheme' = (darkTheme \/ savedTheme = "light")

\* loadThemePreference(): if (savedTheme === 'dark') classList.add('dark-theme')
loadThemePreference == darkTheme' = (darkTheme \/ savedTheme = "dark")

\* DOMContentLoaded: new UserGuideApp().  The constructor reads the URL and
\* calls init(), which runs bindEvents() and loadGuideData().  The embedded
\* loadGuideData awaits nothing, so init() goes on to its end before any
\* event is handled; the fetched one leaves init() waiting.
construct ==
    /\ pc = "loading"
    /\ loadThemePreference
    /\ LET made == [View EXCEPT !.currentLang = getLanguageFromURL(url),
                                !.currentSection = getSectionFromURL(url),
                                !.guideData = NullData,
                                !.sections = ""]
       IN  IF guideVariant = "embedded"
           THEN LET r == initAfterLoad([made EXCEPT !.guideData = StaticContent])
                IN  /\ Becomes(r.v)
                    /\ pc' = "idle"
                    /\ lastOp' = Ended("init", made.currentSection, r)
           ELSE /\ Becomes(made)
                /\ pc' = "fetching"
                /\ lastOp' = [op |-> "construct", key |-> "", show |-> "none", threw |-> FALSE]
    /\ switched' = NoRunOfSwitches
    /\ UNCHANGED <<guideVariant, pageLoads, savedTheme>>
    /\ UNCHANGED searchRest
    /\ UNCHANGED varsURL
    /\ UNCHANGED varsText

\* The fetched loadGuideData() ends: with the two documents parsed and the
\* search index built, or in its catch (a fetch rejected, or response.text()
\* threw), which calls showError().  init() then goes on to its end, where
\* setupSearch() is: an exception on the way leaves #searchInput without its
\* listener.
fetchCompletes(failed, content) ==
    /\ pc = "fetching"
    /\ LET loaded == IF failed THEN showError(View) ELSE [View EXCEPT !.guideData = content]
           r      == initAfterLoad(loaded)
       IN  /\ Becomes(r.v)
           /\ lastOp' = Ended("init", currentSection, r)
           /\ searchBound' = ~r.threw
    /\ searchIndex' = IF failed THEN searchIndex ELSE buildSearchIndex(content)
    /\ pc' = "idle"
    /\ switched' = NoRunOfSwitches
    /\ UNCHANGED <<guideVariant, pageLoads, darkTheme, savedTheme>>
    /\ UNCHANGED <<searchInput, searchTimers, lastSearch, burst>>
    /\ UNCHANGED varsURL
    /\ UNCHANGED varsText

Bound == pc \in {"fetching", "idle"}

\* A click handler that calls showSection(key).
clickShows(op, key) ==
    /\ LET r == showSection(View, key)
       IN  /\ Becomes(r.v)
           /\ lastOp' = [op |-> op, key |-> key, show |-> r.show, threw |-> r.show = "threw"]
    /\ switched' = NoRunOfSwitches
    /\ UNCHANGED <<guideVariant, pc, pageLoads, darkTheme, savedTheme>>
    /\ UNCHANGED searchRest
    /\ UNCHANGED varsURL
    /\ UNCHANGED varsText

\* A click on an entry of the navigation: showSection(dataset.section)
navClick(key) ==
    /\ Bound
    /\ sections # ""
    /\ clickShows("navClick", key)

\* prevBtn.onclick and nextBtn.onclick, as updatePagination set them
prevClick ==
    /\ Bound
    /\ prevBtn # ""
    /\ clickShows("prevClick", prevBtn)

nextClick ==
    /\ Bound
    /\ nextBtn # ""
    /\ clickShows("nextClick", nextBtn)

\* A click on #langToggle: switchLanguage()
langToggle ==
    /\ Bound
    /\ LET r == switchLanguage(View)
       IN  /\ Becomes(r.v)
           /\ lastOp' = Ended("switchLanguage", currentSection, r)
    /\ switched' = IF switched.n = 1
                   THEN [switched EXCEPT !.n = 2]
                   ELSE [n |-> 1, lang |-> currentLang, section |-> currentSection, url |-> url]
    /\ UNCHANGED <<guideVariant, pc, pageLoads, darkTheme, savedTheme>>
    /\ UNCHANGED searchRest
    /\ UNCHANGED varsURL
    /\ UNCHANGED varsText

\* A click on #themeToggle: toggleTheme()
toggleTheme ==
    /\ Bound
    /\ darkTheme' = ~darkTheme
    /\ savedTheme' = IF darkTheme' THEN "dark" ELSE "light"
    /\ lastOp' = [op |-> "toggleTheme", key |-> "", show |-> "none", threw |-> FALSE]
    /\ switched' = NoRunOfSwitches
    /\ UNCHANGED <<guideVariant, pc, currentLang, currentSection, guideData, sections,
                   activeNav, article, breadcrumb, prevBtn, nextBtn, url, historyLength,
                   pageLoads, searchMatch>>
    /\ UNCHANGED searchRest
    /\ UNCHANGED varsURL
    /\ UNCHANGED varsText

\* A click on the error panel's button: window.location.reload()
reloadClick ==
    /\ Bound
    /\ article = ErrorPanel
    /\ pageLoads < MaxReloads
    /\ pageLoads' = pageLoads + 1
    /\ pc' = "loading"
    /\ currentLang' = ""
    /\ currentSection' = ""
    /\ guideData' = NullData
    /\ sections' = ""
    /\ activeNav' = ""
    /\ article' = Blank
    /\ breadcrumb' = NoCrumb
    /\ prevBtn' = ""
    /\ nextBtn' = ""
    /\ darkTheme' = FALSE
    /\ lastOp' = NoOp
    /\ switched' = NoRunOfSwitches
    /\ searchIndex' = <<>>
    /\ searchBound' = FALSE
    /\ searchInput' = EmptyString
    /\ searchTimers' = 0
    /\ searchMatch' = {}
    /\ lastSearch' = NoSearch
    /\ burst' = 0
    /\ UNCHANGED <<guideVariant, url, historyLength, savedTheme>>
    /\ UNCHANGED varsURL
    /\ UNCHANGED varsText

\* How many input events the model lets pass without a search between them.
MaxBurst == 2

\* The values the user gives #searchInput in the model: nothing, a space,
\* "Pro", "s", the character U+4F9B of the Chinese title of providers, "bc".
Queries ==
    {EmptyString, <<" ">>, <<"P", "r", "o">>, <<"s">>, <<"U+4F9B">>, <<"b", "c">>}

\* A mutant: the pending timer is not cleared.
clearTimeoutForgotten(timers) == timers

\* clearTimeout(searchTimeout): the timer of the last input event, if it is
\* still pending, is cancelled.
clearTimeout(timers) == 0

\* The user changes the value of #searchInput.  Once setupSearch has run, the
\* listener of the input event clears the pending timer and sets a new one.
searchInputEvent(value) ==
    /\ pc # "loading"
    /\ value # searchInput
    /\ searchBound => burst < MaxBurst
    /\ searchInput' = value
    /\ IF searchBound
       THEN /\ searchTimers' = clearTimeout(searchTimers) + 1
            /\ burst' = burst + 1
            /\ lastOp' = [op |-> "input", key |-> "", show |-> "none", threw |-> FALSE]
            /\ switched' = NoRunOfSwitches
       ELSE UNCHANGED <<searchTimers, burst, lastOp, switched>>
    /\ UNCHANGED <<guideVariant, pc, currentLang, currentSection, guideData, sections,
                   activeNav, article, breadcrumb, prevBtn, nextBtn, url, historyLength,
                   pageLoads, darkTheme, savedTheme, searchIndex, searchBound, searchMatch,
                   lastSearch>>
    /\ UNCHANGED varsURL
    /\ UNCHANGED varsText

\* A pending timer of the input listener fires: this.performSearch(e.target.value)
searchTimerFires ==
    /\ searchTimers > 0
    /\ LET r == performSearch(searchIndex, currentLang, sections, searchMatch, searchInput)
       IN  /\ searchMatch' = r.searchMatch
           /\ lastSearch' = [ran |-> TRUE, query |-> searchInput, lang |-> currentLang,
                             results |-> [i \in 1..Len(r.results) |-> r.results[i].section],
                             before |-> searchMatch, inputs |-> burst]
    /\ searchTimers' = searchTimers - 1
    /\ burst' = 0
    /\ lastOp' = [op |-> "performSearch", key |-> "", show |-> "none", threw |-> FALSE]
    /\ switched' = NoRunOfSwitches
    /\ UNCHANGED <<guideVariant, pc, currentLang, currentSection, guideData, sections,
                   activeNav, article, breadcrumb, prevBtn, nextBtn, url, historyLength,
                   pageLoads, darkTheme, savedTheme, searchIndex, searchBound, searchInput>>
    /\ UNCHANGED varsURL
    /\ UNCHANGED varsText

NextGuide ==
    \/ construct
    \/ \E content \in FetchedContents : fetchCompletes(FALSE, content)
    \/ fetchCompletes(TRUE, NullData)
    \/ \E key \in KeySet : navClick(key)
    \/ prevClick
    \/ nextClick
    \/ langToggle
    \/ toggleTheme
    \/ reloadClick

SpecGuide == InitGuide /\ [][NextGuide]_vars

\* The page with the search: the fetched variant, opened without a hash and
\* a language, or with a hash that names no section and a language the guide
\* does not have; the handlers that read or write what the search reads or
\* writes.
InitSearch ==
    /\ guideVariant = "fetched"
    /\ url \in {Location("", FALSE, ""), Location("foo", TRUE, "fr")}
    /\ savedTheme = ""
    /\ historyLength = 1
    /\ pageLoads = 0
    /\ PageLoaded
    /\ NoLinks
    /\ NoText

NextSearch ==
    \/ construct
    \/ \E content \in FetchedContents : fetchCompletes(FALSE, content)
    \/ fetchCompletes(TRUE, NullData)
    \/ langToggle
    \/ \E value \in Queries : searchInputEvent(value)
    \/ searchTimerFires

SpecSearch == InitSearch /\ [][NextSearch]_vars

-----------------------------------------------------------------------------
(***************************************************************************)
(* UserGuideApp: parseMarkdown                                             *)
(***************************************************************************)

\* String.prototype.split(c) for a text c of one character
RECURSIVE splitOn(_, _)
splitOn(s, c) ==
    IF \A i \in 1..Len(s) : s[i] # c THEN <<s>>
    ELSE LET n == CHOOSE i \in 1..Len(s) : s[i] = c /\ \A j \in 1..(i - 1) : s[j] # c
         IN  <<SubSeq(s, 1, n - 1)>> \o splitOn(SubSeq(s, n + 1, Len(s)), c)

\* Array.prototype.join('\n')
RECURSIVE join(_)
join(lines) ==
    IF lines = <<>> THEN EmptyString
    ELSE IF Len(lines) = 1 THEN lines[1]
    ELSE lines[1] \o <<"\n">> \o join(Tail(lines))

\* String.prototype.startsWith
startsWith(s, prefix) == Len(s) >= Len(prefix) /\ SubSeq(s, 1, Len(prefix)) = prefix

\* The line begins with '## ' and the emoji of one of the seven sections.
IsSectionHeading(line) ==
    \E i \in 1..Len(Keys) : startsWith(line, <<"#", "#", " ">> \o Icon(Keys[i]))

\* The texts line.includes(...) looks for: those of the navigation titles,
\* but 'AI Provider' and its Chinese counterpart without what follows them.
TriggerPhrase(lang, key) ==
    IF key # "providers" THEN NavTitle(lang, key)
    ELSE IF lang = "zh" THEN <<"A", "I", "U+4F9B", "U+5E94", "U+5546">>
    ELSE <<"A", "I", " ", "P", "r", "o", "v", "i", "d", "e", "r">>

\* The if ... else if chain from its i-th branch on: the key of the first
\* branch whose text the line includes; with none, currentSection stays.
RECURSIVE SectionOfHeading(_, _, _)
SectionOfHeading(line, i, current) ==
    IF i > Len(Keys) THEN current
    ELSE IF \/ Includes(line, TriggerPhrase("zh", Keys[i]))
            \/ Includes(line, TriggerPhrase("en", Keys[i]))
         THEN Keys[i]
         ELSE SectionOfHeading(line, i + 1, current)

\* An object with the sections as properties, in the order they were added.
Section(key, title, content) == [key |-> key, title |-> title, content |-> content]

KeysOf(result) == {result[i].key : i \in 1..Len(result)}

\* sections[key] = value
Assign(result, value) ==
    IF value.key \in KeysOf(result)
    THEN [i \in 1..Len(result) |-> IF result[i].key = value.key THEN value ELSE result[i]]
    ELSE Append(result, value)

\* if (currentSection && currentContent.length > 0) sections[currentSection] = {...};
\* currentSection is "" for null.
Store(result, current, collected) ==
    IF current # "" /\ Len(collected) > 0
    THEN LET first == collected[1]
             \* currentContent[0].replace(/^## /, '')
             title == IF startsWith(first, <<"#", "#", " ">>)
                      THEN SubSeq(first, 4, Len(first))
                      ELSE first
         IN  Assign(result, Section(current, title, join(collected)))
    ELSE result

\* The for loop over the lines, and the statement after it.
RECURSIVE ParseLines(_, _, _, _)
ParseLines(lines, result, current, collected) ==
    IF lines = <<>> THEN Store(result, current, collected)
    ELSE LET line == Head(lines)
         IN  IF IsSectionHeading(line)
             THEN ParseLines(Tail(lines), Store(result, current, collected),
                             SectionOfHeading(line, 1, current), <<line>>)
             ELSE ParseLines(Tail(lines), result, current,
                             IF current # "" THEN Append(collected, line)
                             ELSE collected)

parseMarkdown(content) == ParseLines(splitOn(content, "\n"), <<>>, "", <<>>)

\* A section of the embedded content: the heading line, an empty line and
\* the text under it, for which the model takes that of its fetched
\* documents; scenarios ends with two line ends.  The title is that of
\* getStaticEnContent() and getStaticZhContent().
StaticSection(lang, key) ==
    LET afterIcon ==
            CASE lang = "en" /\ key = "basic" ->
                   <<"B", "a", "s", "i", "c", " ", "S", "e", "t", "t", "i", "n", "g", "s", " ",
                     "C", "o", "n", "f", "i", "g", "u", "r", "a", "t", "i", "o", "n">>
              [] lang = "en" /\ key = "advanced" ->
                   NavTitle("en", "advanced")
                   \o <<" ", "C", "o", "n", "f", "i", "g", "u", "r", "a", "t", "i", "o", "n">>
              [] lang = "zh" /\ key = "scenarios" -> <<"U+4EE3", "U+7801", "U+68C0", "U+89C6">>
              [] lang = "zh" /\ key = "providers" ->
                   <<"A", "I", " ", "U+4F9B", "U+5E94", "U+5546", "U+914D", "U+7F6E">>
              [] lang = "zh" /\ key = "basic" ->
                   <<"U+57FA", "U+7840", "U+8BBE", "U+7F6E", "U+914D", "U+7F6E">>
              [] lang = "zh" /\ key = "advanced" ->
                   NavTitle("zh", "advanced") \o <<"U+914D", "U+7F6E">>
              [] OTHER -> NavTitle(lang, key)
        title == Icon(key) \o <<" ">> \o afterIcon
    IN  Section(key, title,
                <<"#", "#", " ">> \o title \o <<"\n", "\n">> \o Body(lang, key)
                \o (IF key = "scenarios" THEN <<"\n", "\n">> ELSE EmptyString))

getStaticContent(lang) == [i \in 1..Len(Keys) |-> StaticSection(lang, Keys[i])]

\* The contents of the sections of a GuideDocument, one after the other,
\* each beginning on a line of its own.
Serialize(result) == join([i \in 1..Len(result) |-> result[i].content])

\* The fetched document of a language in the model: the seven sections.
GuideMarkdown(lang) == join([i \in 1..Len(Keys) |-> SectionContent(lang, Keys[i])])

\* How many lines the short documents of the model have at most.
MaxLines == 3

\* The arguments of parseMarkdown in the model: a short document, the
\* fetched document of a language, or the contents of the embedded document
\* of a language, one after the other.  The lines of the short documents:
\* the heading of scenarios in English, of providers in Chinese, a heading
\* with the emoji of advanced and no known text ("## U+1F680 Next"), a line
\* of text, an empty line, and a heading with a known text and no emoji.
ParseArguments ==
    LET documentLines ==
            {<<"#", "#", " ">> \o SectionTitle("en", "scenarios"),
             <<"#", "#", " ">> \o SectionTitle("zh", "providers"),
             <<"#", "#", " ">> \o Icon("advanced") \o <<" ", "N", "e", "x", "t">>,
             <<"P", "l", "a", "n">>,
             EmptyString,
             <<"#", "#", " ">> \o NavTitle("en", "basic")}
        shortDocuments ==
            {join(lines) : lines \in UNION {[1..n -> documentLines] : n \in 0..MaxLines}}
    IN  {[NoParse EXCEPT !.content = d, !.source = "document"] :
            d \in shortDocuments \cup {GuideMarkdown(l) : l \in Langs}}
        \cup {[NoParse EXCEPT !.content = Serialize(getStaticContent(l)),
                              !.from = getStaticContent(l), !.source = "embedded"] : l \in Langs}

InitParse ==
    /\ lastParse \in ParseArguments
    /\ lastRender = NoRender
    /\ NoLinks
    /\ NoGuide

\* this.parseMarkdown(content)
callParseMarkdown ==
    /\ ~lastParse.made
    /\ lastParse' = [lastParse EXCEPT !.made = TRUE,
                                      !.sections = parseMarkdown(lastParse.content)]
    /\ UNCHANGED <<lastRender, varsURL, varsGuide>>

\* The contents of the sections parseMarkdown returned, one after the other,
\* are parsed.
parseAgain ==
    /\ lastParse.made
    /\ lastParse.source = "document"
    /\ lastParse' = [made |-> TRUE, content |-> Serialize(lastParse.sections),
                     sections |-> parseMarkdown(Serialize(lastParse.sections)),
                     from |-> lastParse.sections, source |-> "parsed"]
    /\ UNCHANGED <<lastRender, varsURL, varsGuide>>

SpecParse == InitParse /\ [][callParseMarkdown \/ parseAgain]_vars

-----------------------------------------------------------------------------
(***************************************************************************)
(* UserGuideApp: markdownToHtml (src/assets/user-guide.js)                 *)
(*                                                                         *)
(* A tag the converter writes, or one that stands in the markdown, is one  *)
(* token; of the tag <a href="..." target="_blank"> the text before the    *)
(* address is one token and the text after it another.                     *)
(***************************************************************************)

Tags ==
    {"<h1>", "</h1>", "<h2>", "</h2>", "<h3>", "</h3>", "<h4>", "</h4>",
     "<strong>", "</strong>", "<em>", "</em>", "</a>", "<pre>", "</pre>", "<code>", "</code>",
     "<table>", "</table>", "<thead>", "</thead>", "<tbody>", "</tbody>", "<tr>", "</tr>",
     "<th>", "</th>", "<td>", "</td>", "<ul>", "</ul>", "<ol>", "</ol>", "<li>", "</li>",
     "<p>", "</p>", "<div>", "</div>"}

\* The tokens whose first character is '<'
BeginsWithLessThan(token) == token \in Tags \cup {"<a href=\"", "<"}

\* The index of the first token at or after i that is in the set, Len(s) + 1
\* if there is none: where [^...]* for the set stops.
RECURSIVE FirstIn(_, _, _)
FirstIn(s, set, i) ==
    IF i > Len(s) THEN Len(s) + 1
    ELSE IF s[i] \in set THEN i
    ELSE FirstIn(s, set, i + 1)

\* The index of the first token at or after i that is not in the set,
\* Len(s) + 1 if there is none: where [...]* for the set stops.
RECURSIVE FirstNotIn(_, _, _)
FirstNotIn(s, set, i) ==
    IF i > Len(s) THEN Len(s) + 1
    ELSE IF s[i] \notin set THEN i
    ELSE FirstNotIn(s, set, i + 1)

\* .replace(/^#### (.*$)/gm, '<h4>$1</h4>') and the same for '### ', '## '
\* and '# ', in this order: a line that begins with one of the four begins
\* with no other, and the line written begins with '<'.
Headers(html) ==
    LET Prefix(n) == [i \in 1..(n + 1) |-> IF i <= n THEN "#" ELSE " "]
        open == <<"<h1>", "<h2>", "<h3>", "<h4>">>
        close == <<"</h1>", "</h2>", "</h3>", "</h4>">>
        HeadingLine(line) ==
            IF \E n \in 1..4 : startsWith(line, Prefix(n))
            THEN LET n == CHOOSE k \in 1..4 : startsWith(line, Prefix(k))
                 IN  <<open[n]>> \o SubSeq(line, n + 2, Len(line)) \o <<close[n]>>
            ELSE line
        lines == splitOn(html, "\n")
    IN  join([i \in 1..Len(lines) |-> HeadingLine(lines[i])])

\* .replace(/\*\*(.*?)\*\*/g, '<strong>$1</strong>') for the mark '**', and
\* .replace(/\*(.*?)\*/g, '<em>$1</em>') for the mark '*', from index i on.
\* The '.' of (.*?) is no line end: the closing mark is the first one after
\* the opening mark, on its line.
RECURSIVE Emphasis(_, _, _, _, _)
Emphasis(s, mark, open, close, i) ==
    LET MarkAt(j) == startsWith(SubSeq(s, j, Len(s)), mark)
        RECURSIVE CloseOnLine(_)
        CloseOnLine(j) ==
            IF j > Len(s) THEN 0
            ELSE IF MarkAt(j) THEN j
            ELSE IF s[j] = "\n" THEN 0
            ELSE CloseOnLine(j + 1)
        closing == CloseOnLine(i + Len(mark))
    IN  IF i > Len(s) THEN EmptyString
        ELSE IF MarkAt(i) /\ closing # 0
             THEN <<open>> \o SubSeq(s, i + Len(mark), closing - 1) \o <<close>>
                  \o Emphasis(s, mark, open, close, closing + Len(mark))
             ELSE <<s[i]>> \o Emphasis(s, mark, open, close, i + 1)

\* .replace(/\[([^\]]+)\]\(([^)]+)\)/g, '<a href="$2" target="_blank">$1</a>')
RECURSIVE Links(_, _)
Links(s, i) ==
    LET j == FirstIn(s, {"]"}, i + 1)
        k == FirstIn(s, {")"}, j + 2)
    IN  IF i > Len(s) THEN EmptyString
        ELSE IF /\ s[i] = "["
                /\ j > i + 1
                /\ startsWith(SubSeq(s, j, Len(s)), <<"]", "(">>)
                /\ k > j + 2
                /\ k <= Len(s)
             THEN <<"<a href=\"">> \o SubSeq(s, j + 2, k - 1) \o <<"\" target=\"_blank\">">>
                  \o SubSeq(s, i + 1, j - 1) \o <<"</a>">> \o Links(s, k + 1)
             ELSE <<s[i]>> \o Links(s, i + 1)

\* .replace(/```([^`]*?)```/gs, '<pre><code>$1</code></pre>'): what is between
\* the fences holds no grave accent, so the closing fence begins at the first
\* grave accent after the opening one.
RECURSIVE CodeBlocks(_, _)
CodeBlocks(s, i) ==
    LET fence == <<"U+0060", "U+0060", "U+0060">>
        j == FirstIn(s, {"U+0060"}, i + 3)
    IN  IF i > Len(s) THEN EmptyString
        ELSE IF /\ startsWith(SubSeq(s, i, Len(s)), fence)
                /\ startsWith(SubSeq(s, j, Len(s)), fence)
             THEN <<"<pre>", "<code>">> \o SubSeq(s, i + 3, j - 1) \o <<"</code>", "</pre>">>
                  \o CodeBlocks(s, j + 3)
             ELSE <<s[i]>> \o CodeBlocks(s, i + 1)

\* .replace(/`([^`]+)`/g, '<code>$1</code>')
RECURSIVE InlineCode(_, _)
InlineCode(s, i) ==
    LET j == FirstIn(s, {"U+0060"}, i + 1)
    IN  IF i > Len(s) THEN EmptyString
        ELSE IF s[i] = "U+0060" /\ j > i + 1 /\ j <= Len(s)
             THEN <<"<code>">> \o SubSeq(s, i + 1, j - 1) \o <<"</code>">> \o InlineCode(s, j + 1)
             ELSE <<s[i]>> \o InlineCode(s, i + 1)

\* The text of first and after it that of rest, unless one of them threw.
Then(first, rest) ==
    IF first.threw \/ rest.threw THEN Thrown ELSE Returned(first.value \o rest.value)

\* A mutant: the loop runs while i <= rows.length.
LastRowInclusive(rows) == Len(rows)

\* The last i the loop  for (let i = 2; i < rows.length; i++)  runs with.
LastRow(rows) == Len(rows) - 1

\* The callback of the replacement of tables.  rows[i] is undefined beyond
\* the elements of rows, and rows[i].split then throws a TypeError.
TableOf(match) ==
    LET RECURSIVE TableRows(_)
        \* .filter(row => row.trim() && row.includes('|'))
        TableRows(a) ==
            IF a = <<>> THEN <<>>
            ELSE (IF Trim(Head(a)) # EmptyString /\ Includes(Head(a), <<"|">>)
                  THEN <<Head(a)>> ELSE <<>>) \o TableRows(Tail(a))
        rows == TableRows(splitOn(Trim(match), "\n"))
        Defined(i) == i \in 0..(Len(rows) - 1)
        RECURSIVE Cells(_, _, _, _)
        \* .split('|').slice(1, -1) and the forEach over it
        Cells(pieces, i, open, close) ==
            IF i > Len(pieces) - 1 THEN EmptyString
            ELSE <<open>> \o Trim(pieces[i]) \o <<close>> \o Cells(pieces, i + 1, open, close)
        RECURSIVE BodyRows(_)
        BodyRows(i) ==
            IF i > LastRow(rows) THEN Returned(EmptyString)
            ELSE IF ~Defined(i) THEN Thrown
            ELSE Then(Returned(<<"<tr>">> \o Cells(splitOn(rows[i + 1], "|"), 2, "<td>", "</td>")
                               \o <<"</tr>">>),
                      BodyRows(i + 1))
    IN  IF Len(rows) < 2 THEN Returned(match)
        ELSE IF ~Defined(0) THEN Thrown
        ELSE Then(Returned(<<"<table>", "<thead>", "<tr>">>
                           \o Cells(splitOn(rows[1], "|"), 2, "<th>", "</th>")
                           \o <<"</tr>", "</thead>", "<tbody>">>),
                  Then(BodyRows(2), Returned(<<"</tbody>", "</table>">>)))

\* /(\|[^|\n]+\|[^\n]*\n\|[-|:\s]+\|[^\n]*\n(\|[^|\n]+\|[^\n]*\n?)*)/ at i:
\* the index of the last character it matches, or 0.
TableEnd(s, i) ==
    LET \* \|[^|\n]+\| at a
        RowBegins(a) ==
            /\ a <= Len(s)
            /\ s[a] = "|"
            /\ FirstIn(s, {"|", "\n"}, a + 1) > a + 1
            /\ startsWith(SubSeq(s, FirstIn(s, {"|", "\n"}, a + 1), Len(s)), <<"|">>)
        LineEnd(a) == FirstIn(s, {"\n"}, a)
        \* \|[^|\n]+\|[^\n]*\n at i: the index of its line end, or 0
        headerEnd == IF RowBegins(i) /\ LineEnd(i) <= Len(s) THEN LineEnd(i) ELSE 0
        \* \|[-|:\s]+\|[^\n]*\n after the header row: the class is taken as
        \* far as it goes and given back up to the last '|' that a line end
        \* follows somewhere; the index of that line end, or 0
        first == headerEnd + 1
        closing == {p \in (first + 2)..(FirstNotIn(s, {"-", "|", ":"} \cup Whitespace, first + 1) - 1) :
                       s[p] = "|" /\ LineEnd(p + 1) <= Len(s)}
        separatorEnd ==
            IF first > Len(s) THEN 0
            ELSE IF s[first] # "|" THEN 0
            ELSE IF closing = {} THEN 0
            ELSE LineEnd((CHOOSE p \in closing : \A q \in closing : q <= p) + 1)
        \* (\|[^|\n]+\|[^\n]*\n?)* after index e: the index of the last
        \* character taken
        RECURSIVE BodyRowsEnd(_)
        BodyRowsEnd(e) ==
            IF ~RowBegins(e + 1) THEN e
            ELSE IF LineEnd(e + 1) > Len(s) THEN Len(s)
            ELSE BodyRowsEnd(LineEnd(e + 1))
    IN  IF headerEnd = 0 THEN 0
        ELSE IF separatorEnd = 0 THEN 0
        ELSE BodyRowsEnd(separatorEnd)

\* .replace(/(\|[^|\n]+\|[^\n]*\n\|[-|:\s]+\|[^\n]*\n(\|[^|\n]+\|[^\n]*\n?)*)/g, (match) => ...)
RECURSIVE Tables(_, _)
Tables(s, i) ==
    IF i > Len(s) THEN Returned(EmptyString)
    ELSE IF TableEnd(s, i) # 0
         THEN Then(TableOf(SubSeq(s, i, TableEnd(s, i))), Tables(s, TableEnd(s, i) + 1))
         ELSE Then(Returned(<<s[i]>>), Tables(s, i + 1))

\* String.prototype.split(/\n\n+/)
RECURSIVE Blocks(_)
Blocks(s) ==
    IF ~Includes(s, <<"\n", "\n">>) THEN <<s>>
    ELSE LET n == CHOOSE i \in 1..Len(s) :
                      /\ startsWith(SubSeq(s, i, Len(s)), <<"\n", "\n">>)
                      /\ \A j \in 1..(i - 1) : ~startsWith(SubSeq(s, j, Len(s)), <<"\n", "\n">>)
         IN  <<SubSeq(s, 1, n - 1)>> \o Blocks(SubSeq(s, FirstNotIn(s, {"\n"}, n), Len(s)))

\* The loop of the branch for lists from the i-th line on, and what follows it
RECURSIVE ListHtml(_, _, _)
ListHtml(lines, i, inList) ==
    LET trimmed == Trim(lines[i])
        paragraph == IF trimmed # EmptyString THEN <<"<p>">> \o trimmed \o <<"</p>">>
                     ELSE EmptyString
    IN  IF i > Len(lines) THEN (IF inList THEN <<"</ul>">> ELSE EmptyString)
        ELSE IF startsWith(trimmed, <<"-", " ">>)
             THEN (IF ~inList THEN <<"<ul>">> ELSE EmptyString)
                  \o <<"<li>">> \o SubSeq(trimmed, 3, Len(trimmed)) \o <<"</li>">>
                  \o ListHtml(lines, i + 1, TRUE)
        ELSE IF inList
             THEN <<"</ul>">> \o paragraph \o ListHtml(lines, i + 1, FALSE)
        ELSE paragraph \o ListHtml(lines, i + 1, FALSE)

\* /^\d+\./.test(s)
IsNumbered(s) ==
    LET dot == FirstNotIn(s, {"0", "1", "2", "3", "4", "5", "6", "7", "8", "9"}, 1)
    IN  dot > 1 /\ dot <= Len(s) /\ s[dot] = "."

\* The loop of the branch for numbered lists from the i-th line on, and what
\* follows it.  A numbered line writes '<li>' and its text, and nothing before.
RECURSIVE NumberedHtml(_, _, _, _)
NumberedHtml(lines, i, inList, listContent) ==
    LET trimmed == Trim(lines[i])
        dot == FirstNotIn(trimmed, {"0", "1", "2", "3", "4", "5", "6", "7", "8", "9"}, 1)
        \* trimmed.replace(/^\d+\.\s*/, '')
        content == SubSeq(trimmed, FirstNotIn(trimmed, Whitespace, dot + 1), Len(trimmed))
        closeSubList == IF Len(listContent) > 0 THEN <<"</ul>">> ELSE EmptyString
    IN  IF i > Len(lines)
        THEN (IF inList THEN closeSubList \o <<"</li>", "</ol>">> ELSE EmptyString)
        ELSE IF IsNumbered(trimmed)
             THEN (IF ~inList THEN <<"<ol>">> ELSE EmptyString)
                  \o <<"<li>">> \o content
                  \o NumberedHtml(lines, i + 1, TRUE, <<>>)
        ELSE IF startsWith(trimmed, <<"-", " ">>) /\ inList
             THEN (IF Len(listContent) = 0 THEN <<"<ul>">> ELSE EmptyString)
                  \o <<"<li>">> \o SubSeq(trimmed, 3, Len(trimmed)) \o <<"</li>">>
                  \o NumberedHtml(lines, i + 1, inList, Append(listContent, trimmed))
        ELSE IF trimmed # EmptyString /\ inList
             THEN closeSubList \o <<"<div>">> \o trimmed \o <<"</div>">>
                  \o NumberedHtml(lines, i + 1, inList, <<>>)
        ELSE IF trimmed # EmptyString
             THEN (IF inList THEN closeSubList \o <<"</li>", "</ol>">> ELSE EmptyString)
                  \o <<"<p>">> \o trimmed \o <<"</p>">>
                  \o NumberedHtml(lines, i + 1, FALSE, IF inList THEN <<>> ELSE listContent)
        ELSE NumberedHtml(lines, i + 1, inList, listContent)

\* The callback of sections.map
ProcessSection(untrimmed) ==
    LET section == Trim(untrimmed)
    IN  IF section = EmptyString THEN EmptyString
        ELSE IF BeginsWithLessThan(section[1]) THEN section
        ELSE IF Includes(section, <<"\n", "-", " ">>) THEN ListHtml(splitOn(section, "\n"), 1, FALSE)
        ELSE IF IsNumbered(section) THEN NumberedHtml(splitOn(section, "\n"), 1, FALSE, <<>>)
        ELSE <<"<p>">> \o section \o <<"</p>">>

\* The three replacements under "Clean up"
CleanUp(html) ==
    LET RECURSIVE WithoutEmptyParagraphs(_, _)
        \* .replace(/<p><\/p>/g, '')
        WithoutEmptyParagraphs(s, i) ==
            IF i > Len(s) THEN EmptyString
            ELSE IF startsWith(SubSeq(s, i, Len(s)), <<"<p>", "</p>">>)
                 THEN WithoutEmptyParagraphs(s, i + 2)
            ELSE <<s[i]>> \o WithoutEmptyParagraphs(s, i + 1)
        RECURSIVE OneLineEnd(_, _)
        \* .replace(/\n+/g, '\n')
        OneLineEnd(s, i) ==
            IF i > Len(s) THEN EmptyString
            ELSE IF s[i] = "\n" THEN <<"\n">> \o OneLineEnd(s, FirstNotIn(s, {"\n"}, i))
            ELSE <<s[i]>> \o OneLineEnd(s, i + 1)
        EndsWithGreaterThan(token) == token \in Tags \cup {"\" target=\"_blank\">", ">"}
        RECURSIVE TagsJoined(_, _)
        \* .replace(/>\s+</g, '><')
        TagsJoined(s, i) ==
            IF i > Len(s) THEN EmptyString
            ELSE IF /\ EndsWithGreaterThan(s[i])
                    /\ FirstNotIn(s, Whitespace, i + 1) > i + 1
                    /\ FirstNotIn(s, Whitespace, i + 1) <= Len(s)
                    /\ BeginsWithLessThan(s[FirstNotIn(s, Whitespace, i + 1)])
                 THEN <<s[i]>> \o TagsJoined(s, FirstNotIn(s, Whitespace, i + 1))
            ELSE <<s[i]>> \o TagsJoined(s, i + 1)
    IN  TagsJoined(OneLineEnd(WithoutEmptyParagraphs(html, 1), 1), 1)

\* markdownToHtml(markdown): the text returned, or the exception thrown
markdownToHtml(markdown) ==
    LET bold == Emphasis(Headers(markdown), <<"*", "*">>, "<strong>", "</strong>", 1)
        italic == Emphasis(bold, <<"*">>, "<em>", "</em>", 1)
        tables == Tables(InlineCode(CodeBlocks(Links(italic, 1), 1), 1), 1)
        blocks == Blocks(tables.value)
    IN  IF tables.threw THEN Thrown
        ELSE Returned(CleanUp(join([i \in 1..Len(blocks) |-> ProcessSection(blocks[i])])))

\* How many lines the texts given to markdownToHtml have at most.
MaxBlockLines == 3

\* Lines of the texts given to markdownToHtml in the model: a heading, two
\* list lines, a line of plain text and one of HTML, two numbered lines and
\* an indented list line, and the header row, the separator row and a body
\* row of a table.
SampleLines ==
    [title |-> <<"#", "#", " ", "T">>,
     bulletA |-> <<"-", " ", "a">>,
     bulletB |-> <<"-", " ", "b">>,
     text |-> <<"x">>,
     html |-> <<"<div>">>,
     numberedA |-> <<"1", ".", " ", "a">>,
     numberedB |-> <<"2", ".", " ", "b">>,
     subItem |-> <<" ", " ", "-", " ", "s">>,
     headerRow |-> <<"|", " ", "A", " ", "|", " ", "B", " ", "|">>,
     separatorRow |-> <<"|", "-", "-", "-", "|", "-", "-", "-", "|">>,
     bodyRow |-> <<"|", " ", "1", " ", "|", " ", "2", " ", "|">>]

\* The arguments of markdownToHtml in the model: the empty text and the
\* texts of one to MaxBlockLines lines of
\*  - list lines, plain text, HTML and empty lines, alone or after a heading
\*    and an empty line;
\*  - numbered lines, indented list lines and plain text;
\*  - a header row and a separator row, alone or with body rows, plain text
\*    and empty lines under them;
\*  - inline markup, closed and unclosed, a list marker without text and a
\*    header row (one line less).
RenderArguments ==
    LET L == SampleLines
        LinesOf(set, n) == {join(lines) : lines \in UNION {[1..k -> set] : k \in 1..n}}
        lists == LinesOf({L.bulletA, L.bulletB, L.text, L.html, EmptyString}, MaxBlockLines)
        numbered == LinesOf({L.numberedA, L.numberedB, L.subItem, L.text}, MaxBlockLines)
        head == L.headerRow \o <<"\n">> \o L.separatorRow
        tables == {head \o <<"\n">> \o d :
                      d \in LinesOf({L.bodyRow, L.text, EmptyString}, MaxBlockLines)}
        inline == LinesOf({<<"*", "*", "b", "*", "*">>, <<"*", "i", "*">>,
                           <<"[", "t", "]", "(", "u", ")">>, <<"U+0060", "c", "U+0060">>,
                           <<"#", " ", "H">>, <<"*", "x">>, <<"*", "*", "x">>,
                           <<"U+0060", "U+0060", "U+0060", "y">>, <<"U+0060", "z">>,
                           <<"[", "t", "]", "(">>, <<"-", " ">>, L.headerRow},
                          MaxBlockLines - 1)
    IN  {[NoRender EXCEPT !.markdown = d] :
            d \in {EmptyString, head} \cup lists \cup {L.title \o <<"\n", "\n">> \o d : d \in lists}
                  \cup numbered \cup tables \cup inline}

InitRender ==
    /\ lastRender \in RenderArguments
    /\ lastParse = NoParse
    /\ NoLinks
    /\ NoGuide

\* this.markdownToHtml(markdown)
callMarkdownToHtml ==
    /\ ~lastRender.made
    /\ lastRender' = LET returned == markdownToHtml(lastRender.markdown)
                     IN  [lastRender EXCEPT !.made = TRUE,
                                            !.threw = returned.threw,
                                            !.html = IF returned.threw THEN EmptyString
                                                     ELSE returned.value]
    /\ UNCHANGED <<lastParse, varsURL, varsGuide>>

SpecRender == InitRender /\ [][callMarkdownToHtml]_vars

-----------------------------------------------------------------------------
(***************************************************************************)
(* Claims about UserGuideApp                                               *)
(***************************************************************************)

\* The URL shows the state: its hash is the current section and its lang
\* parameter the current language.
URLReflects(u, lang, section) == u.hash = section /\ u.hasLang /\ u.lang = lang

\* C6: when loading the content fails, init() ends with the error panel
\* shown and without an exception or a rejection.
C6_LoadFailureHandled ==
    (lastOp.op = "init" /\ ~guideData.loaded) => (article = ErrorPanel /\ ~lastOp.threw)

\* The current language's document has no section of that key.
NoSection(key) == currentLang \notin Langs \/ key \notin guideData.docs[currentLang]

\* C7: showSection(key) for a key that the current language's document has no
\* section of ends with the error panel shown and does not throw; a key that
\* is rendered is the key of a section of the document.
C7_MissingKeyShowsError ==
    (guideData.loaded /\ lastOp.show # "none")
        => /\ NoSection(lastOp.key)
                  => (lastOp.show = "error" /\ article = ErrorPanel /\ ~lastOp.threw)
           /\ lastOp.show = "rendered" => ~NoSection(lastOp.key)

\* C8 as stated: after every showSection or switchLanguage that came to its
\* end, the URL's hash is currentSection and its lang parameter currentLang.
C8_AsClaimed ==
    (lastOp.show \in {"rendered", "error"} /\ ~lastOp.threw)
        => URLReflects(url, currentLang, currentSection)

\* C8, amended: after every showSection that rendered its section, and after
\* every switchLanguage that returned, the URL's hash is currentSection and
\* its lang parameter currentLang.
C8_URLReflectsState ==
    (lastOp.show = "rendered" \/ (lastOp.op = "switchLanguage" /\ ~lastOp.threw))
        => URLReflects(url, currentLang, currentSection)

\* switchLanguage returned from the error state of a page opened with a hash
\* that names no section.
C8_Witness ==
    /\ lastOp.op = "switchLanguage"
    /\ lastOp.show = "error"
    /\ currentLang = "zh"
    /\ currentSection = "foo"
    /\ url = Location("foo", TRUE, "zh")

\* C9: a step of the viewer (the handlers, init) leaves the length of the
\* history and the number of page loads as they are.
C9_NoHistoryEntry ==
    [][lastOp'.op # "none" => (historyLength' = historyLength /\ pageLoads' = pageLoads)]_vars

C9_Witness ==
    /\ lastOp.op = "nextClick"
    /\ lastOp.show = "rendered"
    /\ currentSection = "support"
    /\ url = Location("support", TRUE, "zh")
    /\ historyLength = 1
    /\ pageLoads = 0

Toggled(lang) == IF lang = "en" THEN "zh" ELSE "en"

\* What one switchLanguage does, seen after the first call of a run.
C10_OneSwitch ==
    switched.n = 1 =>
        /\ currentLang = Toggled(switched.lang)
        /\ currentSection = switched.section
        /\ guideData.loaded =>
               /\ sections = currentLang
               /\ lastOp.show # "none"
               /\ lastOp.key = currentSection
               /\ lastOp.show = "rendered" => article = Rendered(currentLang, currentSection)
               /\ lastOp.show = "error" => article = ErrorPanel

Mode(dark) == IF dark THEN "dark" ELSE "light"

\* C11: every toggleTheme call displays the opposite of the mode displayed
\* before it and stores the name of the mode it displays, "dark" or "light";
\* a page load shows the stored mode; so, in every state in which the script
\* has run and a mode is stored, the page displays the stored mode, the one
\* last toggled to.
C11_ThemePersists ==
    /\ []((pc # "loading" /\ savedTheme # "") => savedTheme = Mode(darkTheme))
    /\ [][(lastOp'.op = "toggleTheme"
               => (darkTheme' = ~darkTheme /\ savedTheme' = Mode(darkTheme')))
           /\ (lastOp'.op # "toggleTheme" => savedTheme' = savedTheme)
           /\ ((pc = "loading" /\ pc' # "loading" /\ savedTheme # "")
                  => Mode(darkTheme') = savedTheme)]_vars

\* The theme was toggled to dark, the page was loaded again, and shows dark.
C11_Witness ==
    /\ pageLoads = 1
    /\ pc = "idle"
    /\ lastOp.op = "init"
    /\ savedTheme = "dark"
    /\ darkTheme

\* The keys of this.sections (and of the entries of #guideNav), in order.
NavKeys(s) == IF s = "" THEN <<>> ELSE Keys

\* C12: in every state in which init() has ended with the content loaded and
\* the current language is en or zh, the navigation has exactly 7 entries,
\* with the keys scenarios, providers, basic, advanced, privacy,
\* subscription, support in this order; and a step that does not load the
\* page again leaves the keys of a rendered navigation as they are.
C12_NavigationFixedOrder ==
    /\ []((pc = "idle" /\ guideData.loaded /\ currentLang \in Langs)
            => /\ Len(NavKeys(sections)) = 7
               /\ NavKeys(sections) = <<"scenarios", "providers", "basic", "advanced",
                                        "privacy", "subscription", "support">>)
    /\ [][(sections # "" /\ pc' # "loading") => NavKeys(sections') = NavKeys(sections)]_vars

\* The navigation was rendered for zh, for en and for zh again.
C12_Witness ==
    /\ switched.n = 2
    /\ switched.lang = "zh"
    /\ guideData.loaded
    /\ currentLang = "zh"
    /\ sections = "zh"
    /\ NavKeys(sections)[4] = "advanced"

\* The fixed order of the entries, and the entries next to a key in it.
FixedOrder ==
    <<"scenarios", "providers", "basic", "advanced", "privacy", "subscription", "support">>

Position(k) == CHOOSE i \in 1..Len(FixedOrder) : FixedOrder[i] = k

EntryBefore(k) == IF Position(k) = 1 THEN "" ELSE FixedOrder[Position(k) - 1]

EntryAfter(k) == IF Position(k) = Len(FixedOrder) THEN "" ELSE FixedOrder[Position(k) + 1]

\* C13: after a showSection(k) that rendered k, the previous button is
\* disabled iff k is the first entry of the fixed order and otherwise shows
\* the entry before k, and the next button is disabled iff k is the last
\* entry and otherwise shows the entry after k; a click on a button calls
\* showSection with that entry; and a click on previous that renders, right
\* after a click on next that rendered k's successor, renders k.
C13_PaginationAdjacent ==
    /\ [](lastOp.show = "rendered"
            => /\ lastOp.key \in KeySet
               /\ (prevBtn = "") <=> (lastOp.key = "scenarios")
               /\ prevBtn = EntryBefore(lastOp.key)
               /\ (nextBtn = "") <=> (lastOp.key = "support")
               /\ nextBtn = EntryAfter(lastOp.key))
    /\ [][(lastOp'.op = "prevClick" => lastOp'.key = prevBtn)
           /\ (lastOp'.op = "nextClick" => lastOp'.key = nextBtn)
           /\ ((lastOp.op = "nextClick" /\ lastOp.show = "rendered"
                   /\ lastOp'.op = "prevClick" /\ lastOp'.show = "rendered")
                  => /\ EntryAfter(currentSection') = currentSection
                     /\ article' = Rendered(currentLang, EntryBefore(lastOp.key)))]_vars

\* Next from advanced rendered privacy, and previous then rendered advanced.
C13_Witness ==
    /\ lastOp.op = "prevClick"
    /\ lastOp.show = "rendered"
    /\ currentSection = "advanced"
    /\ prevBtn = "basic"
    /\ nextBtn = "privacy"

-----------------------------------------------------------------------------
(***************************************************************************)
(* Claims about the search                                                 *)
(***************************************************************************)

\* Two characters are the same letter, whatever their case.
SameLetter(a, b) ==
    \/ a = b
    \/ \E n \in 1..Len(UpperCaseLetters) :
           {a, b} = {UpperCaseLetters[n], LowerCaseLetters[n]}

\* text contains q, case-insensitively.
ContainsIgnoringCase(text, q) ==
    \E i \in 0..(Len(text) - Len(q)) : \A j \in 1..Len(q) : SameLetter(text[i + j], q[j])

\* The sections of a language whose title or markup-stripped body contains q.
SelectedFor(lang, q) ==
    IF lang \notin Langs THEN {}
    ELSE {k \in guideData.docs[lang] :
             \/ ContainsIgnoringCase(SectionTitle(lang, k), q)
             \/ ContainsIgnoringCase(JoinLines(RemoveMarkup(SectionContent(lang, k))), q)}

ResultSet == {lastSearch.results[i] : i \in 1..Len(lastSearch.results)}

\* C14: performSearch(q) with a q that is not blank selects sections of the
\* current language only, each with a title or a markup-stripped body that
\* contains q case-insensitively: all of them when they are at most 5, and 5
\* of them otherwise; the entries it highlights are the selected ones, so at
\* most 5; "Pro" selects providers in the English guide, whose title has
\* "Provider".
C14_SearchSelects ==
    (lastSearch.ran /\ NonBlank(lastSearch.query)) =>
        LET selected == SelectedFor(lastSearch.lang, lastSearch.query)
        IN  /\ ResultSet \subseteq selected
            /\ Cardinality(ResultSet) = Len(lastSearch.results)
            /\ Len(lastSearch.results) =
                   (IF Cardinality(selected) < 5 THEN Cardinality(selected) ELSE 5)
            /\ Cardinality(searchMatch) <= 5
            /\ (lastOp.op = "performSearch" /\ lastSearch.results # <<>>)
                   => searchMatch = ResultSet
            /\ (lastSearch.query = <<"P", "r", "o">> /\ lastSearch.lang = "en"
                    /\ "providers" \in guideData.docs["en"])
                   => "providers" \in ResultSet

\* "Pro" in the Chinese guide selected advanced, which has "Pro" in its body,
\* and not providers, which has "Provider" in its English title only.
C14_Witness ==
    /\ lastOp.op = "performSearch"
    /\ lastSearch.query = <<"P", "r", "o">>
    /\ lastSearch.lang = "zh"
    /\ guideData.docs["en"] = KeySet
    /\ lastSearch.results = <<"advanced">>
    /\ searchMatch = {"advanced"}

\* C15: after a performSearch with an empty or blank query no navigation
\* entry has the search highlight.
C15_BlankQueryClears ==
    (lastOp.op = "performSearch" /\ ~NonBlank(lastSearch.query)) => searchMatch = {}

\* A search for a space cleared the highlights an earlier search had set.
C15_Witness ==
    /\ lastOp.op = "performSearch"
    /\ lastSearch.query = <<" ">>
    /\ lastSearch.before # {}
    /\ searchMatch = {}

\* C16: at most one search timer is pending, and one is pending exactly
\* while an input event has not been followed by a search; an input event
\* leaves exactly one timer pending, its own; and performSearch runs when the
\* pending timer fires, with the value the input then has, and leaves no
\* timer pending: a burst of input events causes one search, on the final
\* value.
C16_SearchDebounced ==
    /\ [](searchTimers <= 1 /\ (searchTimers = 1 <=> burst > 0))
    /\ [][((lastOp'.op = "input" /\ searchInput' # searchInput) => searchTimers' = 1)
           /\ ((lastOp'.op = "performSearch" /\ searchInput' = searchInput)
                  => (searchTimers = 1 /\ searchTimers' = 0 /\ burst >= 1
                      /\ lastSearch'.ran /\ lastSearch'.query = searchInput))
           /\ (lastSearch' # lastSearch => lastOp'.op = "performSearch")]_vars

\* Two input events, "s" and then "Pro", were followed by one search, for "Pro".
C16_Witness ==
    /\ lastOp.op = "performSearch"
    /\ lastSearch.inputs = 2
    /\ lastSearch.query = <<"P", "r", "o">>
    /\ searchInput = <<"P", "r", "o">>
    /\ searchTimers = 0

-----------------------------------------------------------------------------
(***************************************************************************)
(* Claims about the runs of updateAllLinks                                 *)
(***************************************************************************)

\* C17: at most one updateAllLinks timer is pending at any time: an
\* insertion observed while a timer is pending clears that timer and sets a
\* new one, so that a burst of insertions is followed by one run.
C17_MutationDebounced == pendingTimers <= 1

\* The pages whose anchors updateAllLinks rewrites.
KnownPages(v) ==
    IF v = "gated"
    THEN {"pricing.html", "user-guide.html", "terms.html", "privacy.html", "refund.html",
          "index.html"}
    ELSE {"pricing.html", "user-guide.html"}

PointsToKnown(href, v) == \E page \in KnownPages(v) : Includes(href, <<page>>)

\* The href has every attribution parameter that is not empty, form-urlencoded.
Carries(href, up) ==
    \A f \in FieldSet :
        up[f] # EmptyString => Includes(href, <<f, "=">> \o FormEncode(up[f]))

\* C18: doInit runs, once, and its run of updateAllLinks is the one after the
\* load; every timer the observer's callback has set for an inserted anchor
\* fires, which is a run of updateAllLinks, so that again and again no timer
\* is pending; and whenever doInit has run and no timer is pending, with a
\* user known, every anchor to a known page, in the page at the load or
\* inserted later, has the attribution parameters in its href.
C18_EventuallyPropagated ==
    /\ []<>(ready /\ pendingTimers = 0)
    /\ [][((ready' /\ ~ready) => lastRun'.trigger = "init")
           /\ ((lastRun'.trigger = "init" /\ lastRun' # lastRun) => ~ready)
           /\ (pendingTimers' < pendingTimers
                  => (lastRun'.trigger = "mutation" /\ pendingTimers' = pendingTimers - 1))
           /\ ((ready /\ DOMAIN anchors' # DOMAIN anchors)
                  => pendingTimers' = pendingTimers + 1)]_vars
    /\ []((ready /\ pendingTimers = 0 /\ NonBlank(userParams.email))
            => \A a \in DOMAIN anchors :
                   PointsToKnown(anchors[a], variant) => Carries(anchors[a], userParams))

\* The guide link was inserted after doInit, and the run of its timer has
\* given it the email and the plan.
C18_Witness ==
    /\ ready
    /\ pendingTimers = 0
    /\ lastRun.trigger = "mutation"
    /\ "guideLink" \in lastRun.written
    /\ userParams.email = EmailAB
    /\ userParams.plan # EmptyString
    /\ anchors["guideLink"] =
           <<"user-guide.html", "?", "email", "=", "a", "%", "4", "0", "b", ".", "c", "o", "m",
             "&", "plan", "=", "p", "r", "o">>

\* C19: a run of updateAllLinks assigns the href of an anchor only when the
\* URL it computed differs from the href the anchor has and from the target
\* page: an anchor whose href is the computed URL already is not written.
C19_NoRedundantWrite ==
    [][lastRun' # lastRun
         => \A a \in lastRun'.written : a \in DOMAIN anchors => anchors'[a] # anchors[a]]_vars

\* The query string of an href: what follows its first "?".
QueryOf(href) ==
    IF \E i \in 1..Len(href) : href[i] = "?"
    THEN LET first == CHOOSE i \in 1..Len(href) :
                          href[i] = "?" /\ \A j \in 1..(i - 1) : href[j] # "?"
         IN  SubSeq(href, first + 1, Len(href))
    ELSE EmptyString

\* The href reflects the parameters: its query string is the attribution
\* parameters that are not empty when a user is known, and it has no query
\* string otherwise.
Reflects(href, up) ==
    QueryOf(href) = (IF NonBlank(up.email) THEN ParamsToString(PresentPairs(up))
                                           ELSE EmptyString)

Overridden(up, newParams) ==
    [f \in FieldSet |-> IF f \in DOMAIN newParams THEN newParams[f] ELSE up[f]]

\* C20 as stated: a call of updateUserParams(newParams) leaves userParams the
\* previous userParams overridden by newParams, and every anchor to a known
\* page with an href that reflects these parameters, also when the call
\* changes or clears the email of anchors rewritten earlier.
C20_AsClaimed ==
    [][(lastRun'.trigger = "updateUserParams" /\ DOMAIN anchors' = DOMAIN anchors)
         => /\ \E n \in NewParams : userParams' = Overridden(userParams, n)
            /\ \A a \in DOMAIN anchors :
                   PointsToKnown(anchors[a], variant) => Reflects(anchors'[a], userParams')]_vars

\* C20, amended: a call of updateUserParams(newParams) leaves userParams the
\* previous userParams overridden by newParams; when the email is then not
\* blank, every anchor to a known page has an href that reflects these
\* parameters, a changed email in place of the earlier one; when the email is
\* then empty or blank, every href is as it was before the call.
C20_UpdateRepropagates ==
    [][(lastRun'.trigger = "updateUserParams" /\ DOMAIN anchors' = DOMAIN anchors)
         => /\ \E n \in NewParams : userParams' = Overridden(userParams, n)
            /\ NonBlank(userParams'.email)
                   => \A a \in DOMAIN anchors :
                          PointsToKnown(anchors[a], variant)
                              => Reflects(anchors'[a], userParams')
            /\ ~NonBlank(userParams'.email) => anchors' = anchors]_vars

\* The page was opened with the email a@b.com, a source and a plan, doInit
\* has run, and updateUserParams({email: 'z'}) has given the pricing link the
\* new email with the source and the plan.
C20_Witness ==
    /\ ready
    /\ lastRun.trigger = "updateUserParams"
    /\ "pricingLink" \in lastRun.written
    /\ userParams.email = <<"z">>
    /\ userParams.plan # EmptyString
    /\ anchors["pricingLink"] =
           <<"pricing.html", "?", "email", "=", "z", "&", "source", "=", "pricing.html",
             "&", "plan", "=", "p", "r", "o">>

-----------------------------------------------------------------------------
(***************************************************************************)
(* Claims about the state of UserGuideApp and the page URL                 *)
(***************************************************************************)

\* The handler that ran last wrote the URL: showSection rendered its section,
\* or switchLanguage returned.
WroteURL == lastOp.show = "rendered" \/ (lastOp.op = "switchLanguage" /\ ~lastOp.threw)

\* C26: the language and the section are always valid.  Once the viewer is
\* constructed, currentLang is en or zh and currentSection is one of the
\* seven keys, and a URL the viewer has written has such a lang parameter
\* and such a hash, whatever lang parameter and hash the page was opened with.
C26_LangAndSectionValid ==
    pc # "loading" =>
        /\ currentLang \in Langs
        /\ currentSection \in KeySet
        /\ WroteURL => (url.hasLang /\ url.lang \in Langs /\ url.hash \in KeySet)

\* The lang parameter of a URL, en for none or an empty one; its hash,
\* scenarios for none.
LangOfURL(u) == IF ~u.hasLang \/ u.lang = "" THEN "en" ELSE u.lang

SectionOfURL(u) == IF u.hash = "" THEN "scenarios" ELSE u.hash

\* A step that constructs the viewer; a step in which init() ends.
Constructs == pc = "loading" /\ pc' # "loading"

InitEnds == pc # "idle" /\ pc' = "idle"

-----------------------------------------------------------------------------
(***************************************************************************)
(* Claims about parseMarkdown                                              *)
(***************************************************************************)

\* A heading parseMarkdown has a key for: it begins with '## ' and the emoji
\* of a section and holds one of the texts that name a section.
Recognized(line) ==
    /\ \E k \in KeySet : startsWith(line, <<"#", "#", " ">> \o Icon(k))
    /\ \E k \in KeySet, l \in Langs : Includes(line, TriggerPhrase(l, k))

\* The lines from the a-th on are those of ls.
LinesAt(all, a, ls) == a + Len(ls) - 1 <= Len(all) /\ SubSeq(all, a, a + Len(ls) - 1) = ls

\* C21: what parseMarkdown discards is in no section.  The lines before the
\* first recognized heading, and a heading with the emoji of a section and
\* none of the known texts together with the lines under it, are in the
\* title and the content of no section: every section of the result is a
\* recognized heading of the document and the lines under it up to the next
\* heading with an emoji, and its title is that heading without '## '.
C21_SkippedTextDiscarded ==
    lastParse.made =>
        \A i \in 1..Len(lastParse.sections) :
            LET ls == splitOn(lastParse.sections[i].content, "\n")
            IN  /\ Recognized(ls[1])
                /\ \A j \in 2..Len(ls) : ~IsSectionHeading(ls[j])
                /\ lastParse.sections[i].title = SubSeq(ls[1], 4, Len(ls[1]))
                /\ \E a \in 1..Len(splitOn(lastParse.content, "\n")) :
                       LinesAt(splitOn(lastParse.content, "\n"), a, ls)

\* The contents of g are those of the seven sections, each as it was in f.
SameSections(f, g) ==
    /\ KeysOf(g) = KeySet
    /\ \A i \in 1..Len(f) : \E j \in 1..Len(g) :
           g[j].key = f[i].key /\ g[j].content = f[i].content

\* C22: parseMarkdown returns sections of the seven keys only, and parsing
\* the contents of a document of seven sections (one it parsed, or the
\* embedded one of a language), put one after the other, gives the seven
\* keys again, each with the content it had.
C22_ParseIdempotent ==
    lastParse.made =>
        /\ KeysOf(lastParse.sections) \subseteq KeySet
        /\ (lastParse.source \in {"parsed", "embedded"} /\ KeysOf(lastParse.from) = KeySet)
               => SameSections(lastParse.from, lastParse.sections)

-----------------------------------------------------------------------------
(***************************************************************************)
(* Claims about markdownToHtml                                             *)
(***************************************************************************)

\* How many times the token stands in s
RECURSIVE Count(_, _)
Count(s, token) ==
    IF s = <<>> THEN 0
    ELSE (IF Head(s) = token THEN 1 ELSE 0) + Count(Tail(s), token)

\* How many of the lines satisfy "starts with '- '"
RECURSIVE BulletCount(_)
BulletCount(lines) ==
    IF lines = <<>> THEN 0
    ELSE (IF startsWith(Head(lines), <<"-", " ">>) THEN 1 ELSE 0) + BulletCount(Tail(lines))

\* How many stretches of consecutive lines that start with '- ' the lines have
BulletRuns(lines) ==
    Cardinality({i \in 1..Len(lines) :
                    /\ startsWith(lines[i], <<"-", " ">>)
                    /\ (i = 1 \/ ~startsWith(lines[i - 1], <<"-", " ">>))})

\* The text after the heading and the empty line, if the text begins with them
AfterTitle(s) ==
    IF startsWith(s, SampleLines.title \o <<"\n", "\n">>) THEN SubSeq(s, Len(SampleLines.title) + 3, Len(s)) ELSE s

\* One block of list lines and lines of plain text, with a list line at least
ListBlock(s) ==
    /\ \A i \in 1..Len(splitOn(s, "\n")) : splitOn(s, "\n")[i] \in {SampleLines.bulletA, SampleLines.bulletB, SampleLines.text}
    /\ BulletCount(splitOn(s, "\n")) >= 1

\* C29: every block with a line that starts with '- ' becomes lists.  For a
\* block of list lines and lines of plain text, alone or after a heading and
\* an empty line, the output has one <li> per line that starts with '- ', one
\* <ul> and one </ul> per stretch of such lines, and one <p> per other line;
\* a block of a single list line, and one whose only list line is its first,
\* are among them.
C29_ListBlocksBecomeLists ==
    (lastRender.made /\ ListBlock(AfterTitle(lastRender.markdown))) =>
        LET lines == splitOn(AfterTitle(lastRender.markdown), "\n")
        IN  /\ Count(lastRender.html, "<li>") = BulletCount(lines)
            /\ Count(lastRender.html, "</li>") = BulletCount(lines)
            /\ Count(lastRender.html, "<ul>") = BulletRuns(lines)
            /\ Count(lastRender.html, "</ul>") = BulletRuns(lines)
            /\ Count(lastRender.html, "<p>") = Len(lines) - BulletCount(lines)

\* The <li> elements of the lines, one after the other
RECURSIVE Items(_)
Items(lines) ==
    IF lines = <<>> THEN EmptyString
    ELSE <<"<li>">> \o SubSeq(Head(lines), 3, Len(Head(lines))) \o <<"</li>">> \o Items(Tail(lines))

\* C23: a heading, an empty line and n >= 1 lines that each start with '- '
\* give the heading tag and after it one <ul> of n <li> in the order of the
\* lines, with no empty <p></p> in the output.
C23_HeadingThenList ==
    (/\ lastRender.made
     /\ startsWith(lastRender.markdown, SampleLines.title \o <<"\n", "\n">>)
     /\ \A i \in 1..Len(splitOn(AfterTitle(lastRender.markdown), "\n")) :
            splitOn(AfterTitle(lastRender.markdown), "\n")[i] \in {SampleLines.bulletA, SampleLines.bulletB}) =>
        /\ lastRender.html = <<"<h2>", "T", "</h2>", "<ul>">>
                             \o Items(splitOn(AfterTitle(lastRender.markdown), "\n")) \o <<"</ul>">>
        /\ ~Includes(lastRender.html, <<"<p>", "</p>">>)

\* One block of list lines, lines of plain text and lines of HTML, with a
\* line of HTML at least, and a list line under another line
BlockWithHtmlLine(s) ==
    /\ \A i \in 1..Len(splitOn(s, "\n")) : splitOn(s, "\n")[i] \in {SampleLines.bulletA, SampleLines.bulletB, SampleLines.text, SampleLines.html}
    /\ \E i \in 1..Len(splitOn(s, "\n")) : splitOn(s, "\n")[i] = SampleLines.html
    /\ \E i \in 2..Len(splitOn(s, "\n")) : splitOn(s, "\n")[i] \in {SampleLines.bulletA, SampleLines.bulletB}

\* C30: in a block, a line that starts with '<' is written as it is, inside
\* no <p>, <li> or <div> of the converter, and the other lines of the block
\* are converted: each line that starts with '- ' is a <li>.
C30_HtmlLineUnmodified ==
    (lastRender.made /\ BlockWithHtmlLine(lastRender.markdown)) =>
        /\ ~Includes(lastRender.html, <<"<p>", "<div>", "</p>">>)
        /\ ~Includes(lastRender.html, <<"<li>", "<div>", "</li>">>)
        /\ ~Includes(lastRender.html, <<"<div>", "<div>", "</div>">>)
        /\ Count(lastRender.html, "<li>") = BulletCount(splitOn(lastRender.markdown, "\n"))

OpeningOf(tag) == CASE tag = "</ol>" -> "<ol>" [] tag = "</ul>" -> "<ul>" [] tag = "</li>" -> "<li>"

\* From the i-th token on, with the elements of the stack open, every <ol>,
\* <ul> and <li> is closed by its own closing tag, innermost first.
RECURSIVE WellNestedFrom(_, _, _)
WellNestedFrom(s, i, stack) ==
    IF i > Len(s) THEN stack = <<>>
    ELSE IF s[i] \in {"<ol>", "<ul>", "<li>"} THEN WellNestedFrom(s, i + 1, <<s[i]>> \o stack)
    ELSE IF s[i] \in {"</ol>", "</ul>", "</li>"}
         THEN /\ stack # <<>>
              /\ Head(stack) = OpeningOf(s[i])
              /\ WellNestedFrom(s, i + 1, Tail(stack))
    ELSE WellNestedFrom(s, i + 1, stack)

\* One block that begins with a numbered line, of numbered lines, indented
\* lines that start with '- ' and lines of plain text
NumberedBlock(s) ==
    /\ IsNumbered(s)
    /\ \A i \in 1..Len(splitOn(s, "\n")) : splitOn(s, "\n")[i] \in {SampleLines.numberedA, SampleLines.numberedB, SampleLines.subItem, SampleLines.text}

\* C28: the output for a block of a numbered list is well nested.  Whatever
\* numbered lines, indented '- ' lines and other lines follow the first
\* numbered line, every <ol>, <li> and <ul> opened is closed, the <li> of a
\* numbered line and the <ul> under it before the <li> of the next.
C28_NumberedListWellNested ==
    (lastRender.made /\ NumberedBlock(lastRender.markdown)) =>
        WellNestedFrom(lastRender.html, 1, <<>>)

\* How many body rows stand in the lines from the i-th on with no other line
\* before them
RECURSIVE RowsUnder(_, _)
RowsUnder(lines, i) ==
    IF i > Len(lines) THEN 0
    ELSE IF lines[i] = SampleLines.bodyRow THEN 1 + RowsUnder(lines, i + 1)
    ELSE 0

TableHead == SampleLines.headerRow \o <<"\n">> \o SampleLines.separatorRow

\* C24: pipe rows one under the other, the second a separator row, become one
\* table: its header cells are those of the first row, and its body has one
\* <tr> per row under the separator row, with the cells of that row, and none
\* for the separator row or for a line that is not of these rows.  A header
\* row alone stays text.
C24_TableOfContiguousRows ==
    /\ (lastRender.made /\ startsWith(lastRender.markdown, TableHead)) =>
           LET rows == RowsUnder(splitOn(lastRender.markdown, "\n"), 3)
           IN  /\ Count(lastRender.html, "<table>") = 1
               /\ Includes(lastRender.html,
                      <<"<thead>", "<tr>", "<th>", "A", "</th>", "<th>", "B", "</th>", "</tr>", "</thead>">>)
               /\ Count(lastRender.html, "<tr>") = 1 + rows
               /\ Count(lastRender.html, "<td>") = 2 * rows
    /\ (lastRender.made /\ lastRender.markdown = SampleLines.headerRow) =>
           lastRender.html = <<"<p>">> \o SampleLines.headerRow \o <<"</p>">>

UnclosedFence == <<"U+0060", "U+0060", "U+0060", "y">>

-----------------------------------------------------------------------------
(***************************************************************************)
(* Claims about showSection and the navigation                             *)
(***************************************************************************)

\* The handlers that call showSection(key) and nothing else
ShowSectionClicks == {"navClick", "prevClick", "nextClick"}

\* C31: a showSection(key) that ends in the error state changes the article
\* area and nothing else: currentSection, currentLang, the URL, the
\* breadcrumb, the previous and the next button, and with them the entries
\* of the navigation and the one marked active, are as before the call.
C31_ErrorChangesArticleOnly ==
    [][(lastOp'.op \in ShowSectionClicks /\ lastOp'.show = "error") =>
           (/\ currentSection' = currentSection
            /\ currentLang' = currentLang
            /\ url' = url
            /\ historyLength' = historyLength
            /\ breadcrumb' = breadcrumb
            /\ prevBtn' = prevBtn
            /\ nextBtn' = nextBtn
            /\ sections' = sections
            /\ activeNav' = activeNav
            /\ guideData' = guideData)]_vars

\* C32: once the content is loaded at most one entry of the navigation is
\* marked active, and the entry marked is that of currentSection, also after
\* a showSection that ended in the error state.  (The model holds the one
\* key marked: showSection takes the class from every entry before it marks
\* one.)
C32_ActiveIsCurrent ==
    (pc = "idle" /\ guideData.loaded) => (activeNav = "" \/ activeNav = currentSection)

-----------------------------------------------------------------------------
(* Claims about the search highlight *)
\* C33: after performSearch(q) with a non-blank q, on a page whose navigation
\* is rendered, the entries that carry the search highlight are exactly the
\* sections selected for q; a highlight of an earlier query never remains,
\* also when q selects no section.
C33_HighlightIsSelection ==
    (lastOp.op = "performSearch" /\ NonBlank(lastSearch.query) /\ sections # "") =>
        searchMatch = {lastSearch.results[i] : i \in 1..Len(lastSearch.results)}

-----------------------------------------------------------------------------
(* Claims about the language toggle while the content is loading *)
\* C34: a click on the language toggle after bindEvents and before
\* loadGuideData has completed throws no exception, and when init() then
\* shows the section, the navigation, the section shown and the URL are in the
\* language currentLang holds.
C34_ToggleWhileLoading ==
    /\ (pc = "fetching" /\ lastOp.op = "switchLanguage") => ~lastOp.threw
    /\ (pc = "idle" /\ lastOp.op = "init" /\ lastOp.show = "rendered") =>
           /\ sections = TitleLang(currentLang)
           /\ article = Rendered(currentLang, currentSection)
           /\ url = Location(currentSection, TRUE, currentLang)

-----------------------------------------------------------------------------
(* Claims about the hrefs updateAllLinks writes *)
\* The path of an href: what precedes its first "?".
PathOf(href) ==
    IF \E i \in 1..Len(href) : href[i] = "?"
    THEN LET first == CHOOSE i \in 1..Len(href) :
                          href[i] = "?" /\ \A j \in 1..(i - 1) : href[j] # "?"
         IN  SubSeq(href, 1, first - 1)
    ELSE href

\* The anchors whose href names a known page in the markup.
NamesPage(a) == \E page \in KnownPages("gated") : MarkupHref(a) = <<page>>

\* C35: updateAllLinks never changes the page an anchor points to: whatever
\* the attribution parameters hold (a value that has the name of a known page
\* in it too) and however often it runs, an anchor whose href names the known
\* page P in the markup has an href whose path is P.
C35_PagePreserved ==
    \A a \in DOMAIN anchors : NamesPage(a) => PathOf(anchors[a]) = MarkupHref(a)

\* How often the parameter f is set in the query string of an href.
Occurrences(href, f) ==
    Cardinality({i \in 1..(Len(href) - 1) :
                     /\ href[i] = f
                     /\ href[i + 1] = "="
                     /\ (i = 1 \/ href[i - 1] \in {"?", "&"})})

\* C36: updateAllLinks is idempotent on the hrefs: once a run has rewritten
\* the anchors of the page for the userParams of the moment (doInit has run
\* and no timer of an inserted anchor is pending), a further run with the same
\* userParams leaves every href as it is; and no href has an attribution
\* parameter more than once.
C36_Idempotent ==
    /\ [][(ready /\ pendingTimers = 0 /\ userParams' = userParams
              /\ DOMAIN anchors' = DOMAIN anchors) => anchors' = anchors]_vars
    /\ [](\A a \in DOMAIN anchors : \A f \in FieldSet : Occurrences(anchors[a], f) <= 1)

-----------------------------------------------------------------------------
(* Claims about the runs the observer sets off *)
\* C37: the propagator does not set itself off.  A timer is set by the
\* insertion of an anchor and by nothing else, a run of updateAllLinks changes
\* hrefs and sets none, and a run of the observer's callback takes one timer
\* from the pending ones: the runs set off by the observer are as many as the
\* anchors inserted.  The insertions being finite, from some moment on no
\* timer is pending.
C37_NoRetrigger ==
    /\ [][(pendingTimers' > pendingTimers)
             => (/\ pendingTimers' = pendingTimers + 1
                 /\ DOMAIN anchors' # DOMAIN anchors
                 /\ \A a \in DOMAIN anchors : anchors'[a] = anchors[a])]_vars
    /\ [][(DOMAIN anchors' = DOMAIN anchors /\ anchors' # anchors)
             => pendingTimers' <= pendingTimers]_vars
    /\ [][(lastRun'.trigger = "mutation" /\ lastRun' # lastRun)
             => pendingTimers' = pendingTimers - 1]_vars
    /\ <>[](pendingTimers = 0)

\* Two anchors were inserted after doInit; the run of the last timer has
\* rewritten hrefs and has left no timer pending.
C37_Witness ==
    /\ ready
    /\ pendingTimers = 0
    /\ lastRun.trigger = "mutation"
    /\ {"pricingLink", "guideLink"} \subseteq lastRun.written
    /\ Cardinality(DOMAIN anchors) = 4

-----------------------------------------------------------------------------
(* Claims about the two variants of updateAllLinks *)
\* The anchors whose href has the path pricing.html or user-guide.html.
ToPricingOrGuide(anc) ==
    {a \in DOMAIN anc : PathOf(anc[a]) \in {<<"pricing.html">>, <<"user-guide.html">>}}

\* C38: with a user known, updateAllLinks of part_001 and updateAllLinks of
\* part_000, run on the same page, leave every anchor that points to
\* pricing.html or to user-guide.html with the same href: what a run of the
\* page's variant leaves in such an anchor is what either variant gives.
C38_VariantsAgree ==
    [][(/\ DOMAIN anchors' = DOMAIN anchors
        /\ <<ready, pendingTimers, lastRun, anchors, userParams>>'
               # <<ready, pendingTimers, lastRun, anchors, userParams>>
        /\ hasUserInfo(userParams'))
           => \A a \in ToPricingOrGuide(anchors) :
                  /\ anchors'[a] = updateAllLinksGated(userParams', anchors).anchors[a]
                  /\ anchors'[a] = updateAllLinksUngated(userParams', anchors).anchors[a]]_vars

=============================================================================
